---- MODULE Spec2Model ----
(***************************************************************************)
(* Crisis network analysis toolkit (411sst/crisis-network-analysis).       *)
(*                                                                         *)
(* Part 1: CrisisNetworkAnalyzer (src/src/networks/                        *)
(*         crisis_network_analyzer.py): the dataset held by the analyzer,  *)
(*         the network registry, the four network builders and             *)
(*         calculate_basic_metrics.                                        *)
(* Part 2: LIWCCrisisAnalyzer (src/src/liwc_integration.py): the document  *)
(*         scorer, the dataset enricher and the normalisation step.        *)
(*                                                                         *)
(* Numbers that the code keeps as floats are kept here as exact fractions  *)
(* <<numerator, denominator>> with a positive denominator.                 *)
(***************************************************************************)
EXTENDS Integers, Sequences, FiniteSets, TLC

VARIABLES
    df,         \* CrisisNetworkAnalyzer.df: [columns, rows]
    sk,         \* what scikit-learn answers for the corpus of df
    networks,   \* CrisisNetworkAnalyzer.networks: name -> graph
    metrics,    \* CrisisNetworkAnalyzer.metrics: name -> metrics map
    ret,        \* the last call on the analyzer and what it returned
    prev,       \* the call before it
    calls,      \* number of calls made so far (bounds the runs of the model)
    liwc,       \* LIWCCrisisAnalyzer: [base_rates]
    table,      \* the table handed to the LIWC analyzer: [index, columns, cells]
    out,        \* the last call on the LIWC analyzer and what it returned
    dataset,    \* the table handed to the quality validator: [columns, rows]
    validation, \* the last call of validate_dataset and what it returned
    fs,         \* the files the scripts work on
    proc,       \* the last run of a script: its arguments, outcome, exit code
    cleaner,    \* DataCleaner: [cleaning_stats]
    input_df,   \* the caller's table: [columns, index, rows]
    cleaned,    \* the last call on the cleaner and what it returned
    reddit,     \* what the Reddit API answers to each request of a run
    collection  \* the last run of a collector and what it returned

netVars == <<df, sk, networks, metrics, ret, prev>>
liwcVars == <<liwc, table, out>>
toolVars == <<dataset, validation, fs, proc>>
pipelineVars == <<cleaner, input_df, cleaned, reddit, collection>>
vars ==
    <<df, sk, networks, metrics, ret, prev, calls, liwc, table, out,
      dataset, validation, fs, proc, cleaner, input_df, cleaned, reddit,
      collection>>

(***************************************************************************)
(* Bounds of the model.                                                    *)
(***************************************************************************)
MaxPosts == 4
MaxTimedPosts == 3
MaxTimeSlot == 2
MaxCalls == 2

(***************************************************************************)
(* Exact fractions.                                                        *)
(***************************************************************************)
Frac(n, d) == <<n, d>>
FracEq(p, q) == p[1] * q[2] = q[1] * p[2]
FracLess(p, q) == p[1] * q[2] < q[1] * p[2]
FracLeq(p, q) == p[1] * q[2] <= q[1] * p[2]
FracAdd(p, q) == <<p[1] * q[2] + q[1] * p[2], p[2] * q[2]>>
FracSub(p, q) == <<p[1] * q[2] - q[1] * p[2], p[2] * q[2]>>
FracMul(p, q) == <<p[1] * q[1], p[2] * q[2]>>

RECURSIVE Gcd(_, _)
Gcd(a, b) == IF b = 0 THEN a ELSE Gcd(b, a % b)

Abs(n) == IF n < 0 THEN -n ELSE n

\* The fraction in lowest terms, so that equal numbers are equal values.
FracNorm(p) ==
    IF p[1] = 0 THEN <<0, 1>>
    ELSE LET g == Gcd(Abs(p[1]), p[2]) IN <<p[1] \div g, p[2] \div g>>

(***************************************************************************)
(* Part 1.  CrisisNetworkAnalyzer                                          *)
(***************************************************************************)
None == "None"
DELETED == "[deleted]"
UNKNOWN == "unknown"
DefaultWindow == 24
DefaultThreshold == 300

\* A graph of networkx: the adjacency is kept as ordered pairs; an
\* undirected graph holds both orientations of every edge.
NewGraph(directed) ==
    [directed |-> directed, nodes |-> {}, adj |-> {},
     weight |-> [e \in {} |-> <<0, 1>>]]

AddNode(G, n) == [G EXCEPT !.nodes = @ \cup {n}]

\* G.add_edge(u, v, weight=w): creates the end points, sets (or overwrites)
\* the weight.
AddEdge(G, u, v, w) ==
    LET es == IF G.directed THEN {<<u, v>>} ELSE {<<u, v>>, <<v, u>>}
    IN [directed |-> G.directed,
        nodes |-> G.nodes \cup {u, v},
        adj |-> G.adj \cup es,
        weight |-> [e \in G.adj \cup es |->
                      IF e \in es THEN w ELSE G.weight[e]]]

Neighbors(G, n) == {e[2] : e \in {x \in G.adj : x[1] = n}}

NumberOfEdges(G) ==
    IF G.directed THEN Cardinality(G.adj)
    ELSE LET loops == {e \in G.adj : e[1] = e[2]}
         IN (Cardinality(G.adj \ loops) \div 2) + Cardinality(loops)

\* data = self.df[self.df['crisis_id'] == crisis_id] or the whole of self.df
Filtered(crisis_id) ==
    IF crisis_id # None /\ "crisis_id" \in df.columns
    THEN SelectSeq(df.rows, LAMBDA r : r.crisis_id = crisis_id)
    ELSE df.rows

NetworkName(kind, crisis_id) ==
    IF crisis_id # None /\ "crisis_id" \in df.columns
    THEN <<kind, crisis_id>>
    ELSE <<kind, "all">>

Range(s) == {s[i] : i \in DOMAIN s}

Max(a, b) == IF a >= b THEN a ELSE b

(***************************************************************************)
(* build_user_interaction_network                                          *)
(***************************************************************************)
\* The loop over data.iterrows(): the user-subreddit graph after the first
\* i rows.  Users and subreddits are nodes of the same graph, named by
\* their strings.
RECURSIVE Bipartite(_, _)
Bipartite(data, i) ==
    IF i = 0 THEN NewGraph(FALSE)
    ELSE LET G == Bipartite(data, i - 1)
             user == data[i].author
             subreddit == data[i].subreddit
             weight == Max(1, data[i].score)
         IN IF user # DELETED /\ user # UNKNOWN
            THEN IF <<user, subreddit>> \in G.adj
                 THEN AddEdge(G, user, subreddit,
                              FracAdd(G.weight[<<user, subreddit>>], Frac(weight, 1)))
                 ELSE AddEdge(G, user, subreddit, Frac(weight, 1))
            ELSE G

\* users = [n for n in G.nodes() if n in data['author'].values]
UsersOf(G, data) == {n \in G.nodes : n \in {data[i].author : i \in DOMAIN data}}

CommonSubreddits(G, user1, user2) == Neighbors(G, user1) \cap Neighbors(G, user2)

\* A variant of UserNetwork that goes on from the graph already registered
\* instead of a fresh one, adding to the weights it finds there.
UserNetworkOnRegistered(data) ==
    LET G == Bipartite(data, Len(data))
        users == UsersOf(G, data)
        linked == {p \in users \X users :
                     p[1] # p[2] /\ CommonSubreddits(G, p[1], p[2]) # {}}
        name == <<"user_interaction", "all">>
        old == IF name \in DOMAIN networks THEN networks[name] ELSE NewGraph(FALSE)
    IN [directed |-> FALSE,
        nodes |-> old.nodes \cup {p[1] : p \in linked},
        adj |-> old.adj \cup linked,
        weight |-> [p \in old.adj \cup linked |->
                      IF p \in old.adj /\ p \in linked
                      THEN FracAdd(old.weight[p],
                                   Frac(Cardinality(CommonSubreddits(G, p[1], p[2])), 1))
                      ELSE IF p \in linked
                           THEN Frac(Cardinality(CommonSubreddits(G, p[1], p[2])), 1)
                           ELSE old.weight[p]]]

UserNetwork(data) ==
    LET G == Bipartite(data, Len(data))
        users == UsersOf(G, data)
        linked == {p \in users \X users :
                     p[1] # p[2] /\ CommonSubreddits(G, p[1], p[2]) # {}}
    IN [directed |-> FALSE,
        nodes |-> {p[1] : p \in linked},
        adj |-> linked,
        weight |-> [p \in linked |->
                      Frac(Cardinality(CommonSubreddits(G, p[1], p[2])), 1)]]

(***************************************************************************)
(* build_temporal_network                                                  *)
(***************************************************************************)
\* node_id = row.get('post_id', f"post_{row.name}")
NodeId(row) ==
    IF "post_id" \in df.columns THEN row.post_id ELSE <<"post", row.idx>>

\* data.sort_values('created_utc'): rows in ascending timestamp order, rows
\* of equal timestamp in their order in data.
RECURSIVE InsertByTime(_, _)
InsertByTime(sorted, row) ==
    IF sorted = <<>> THEN <<row>>
    ELSE IF sorted[Len(sorted)].created_utc <= row.created_utc
         THEN Append(sorted, row)
         ELSE Append(InsertByTime(SubSeq(sorted, 1, Len(sorted) - 1), row),
                     sorted[Len(sorted)])

RECURSIVE SortValues(_)
SortValues(data) ==
    IF data = <<>> THEN <<>>
    ELSE InsertByTime(SortValues(SubSeq(data, 1, Len(data) - 1)), data[Len(data)])

\* weight = (1 / (time_diff + 1)) * ((post1.score + post2.score) / 2)
TemporalWeight(post1, post2) ==
    FracNorm(Frac(post1.score + post2.score,
                  2 * ((post2.created_utc - post1.created_utc) + 1)))

\* A variant of LookForward that stops one candidate too early: at a
\* candidate exactly time_window_hours away.
RECURSIVE LookForwardStoppingAtWindow(_, _, _, _, _)
LookForwardStoppingAtWindow(G, posts, i, j, time_window_hours) ==
    IF j > Len(posts) THEN G
    ELSE LET post1 == posts[i]
             post2 == posts[j]
             time_diff == post2.created_utc - post1.created_utc
         IN IF time_diff >= time_window_hours THEN G
            ELSE IF post1.subreddit = post2.subreddit \/ post1.author = post2.author
                 THEN LookForwardStoppingAtWindow(
                          AddEdge(G, NodeId(post1), NodeId(post2),
                                  TemporalWeight(post1, post2)),
                          posts, i, j + 1, time_window_hours)
                 ELSE LookForwardStoppingAtWindow(G, posts, i, j + 1, time_window_hours)

\* The inner loop "for post2 in posts[i+1:]" from candidate j on; it stops
\* at the first candidate further away than the window.
RECURSIVE LookForward(_, _, _, _, _)
LookForward(G, posts, i, j, time_window_hours) ==
    IF j > Len(posts) THEN G
    ELSE LET post1 == posts[i]
             post2 == posts[j]
             time_diff == post2.created_utc - post1.created_utc
         IN IF time_diff > time_window_hours THEN G
            ELSE IF post1.subreddit = post2.subreddit \/ post1.author = post2.author
                 THEN LookForward(
                          AddEdge(G, NodeId(post1), NodeId(post2),
                                  TemporalWeight(post1, post2)),
                          posts, i, j + 1, time_window_hours)
                 ELSE LookForward(G, posts, i, j + 1, time_window_hours)

\* A variant of TemporalEdges whose forward scan starts one candidate late,
\* at the post after the next.
RECURSIVE TemporalEdgesSkippingNext(_, _, _, _)
TemporalEdgesSkippingNext(G, posts, i, time_window_hours) ==
    IF i > Len(posts) THEN G
    ELSE TemporalEdgesSkippingNext(
             LookForward(G, posts, i, i + 2, time_window_hours),
             posts, i + 1, time_window_hours)

\* The outer loop "for i, post1 in enumerate(posts)" from post i on.
RECURSIVE TemporalEdges(_, _, _, _)
TemporalEdges(G, posts, i, time_window_hours) ==
    IF i > Len(posts) THEN G
    ELSE TemporalEdges(LookForward(G, posts, i, i + 1, time_window_hours),
                       posts, i + 1, time_window_hours)

TemporalNetwork(data, time_window_hours) ==
    LET posts == SortValues(data)
        G0 == [NewGraph(TRUE) EXCEPT !.nodes = {NodeId(posts[i]) : i \in DOMAIN posts}]
    IN TemporalEdges(G0, posts, 1, time_window_hours)

(***************************************************************************)
(* build_subreddit_network                                                 *)
(***************************************************************************)
\* for subreddit in data['subreddit'].unique():
\*     if subreddit and subreddit != 'unknown': G.add_node(subreddit, ...)
SubredditNodes(data) ==
    {s \in {data[i].subreddit : i \in DOMAIN data} : s # "" /\ s # UNKNOWN}

\* set(data[data['subreddit'] == sub]['author'])
AuthorsIn(data, sub) ==
    {data[i].author : i \in {k \in DOMAIN data : data[k].subreddit = sub}}

\* A variant of SharedAuthors that takes the union of the two author sets.
AuthorsOfEither(data, sub1, sub2) == AuthorsIn(data, sub1) \cup AuthorsIn(data, sub2)

SharedAuthors(data, sub1, sub2) == AuthorsIn(data, sub1) \cap AuthorsIn(data, sub2)

SubredditNetwork(data) ==
    LET subreddits == SubredditNodes(data)
        linked == {p \in subreddits \X subreddits :
                     p[1] # p[2] /\ SharedAuthors(data, p[1], p[2]) # {}}
    IN [directed |-> FALSE,
        nodes |-> subreddits,
        adj |-> linked,
        weight |-> [p \in linked |->
                      Frac(Cardinality(SharedAuthors(data, p[1], p[2])), 1)]]

(***************************************************************************)
(* build_content_similarity_network                                        *)
(*                                                                         *)
(* TfidfVectorizer and cosine_similarity are scikit-learn's.  Their answer *)
(* for the corpus of the analyzer's dataset is the input sk: either the    *)
(* vectorizer raises (fails), or sim gives the similarity of rows a < b    *)
(* (by row label) in thousandths.  A corpus with fewer than two documents  *)
(* or with only empty documents has no term of document frequency 2        *)
(* (min_df=2), and the vectorizer raises ValueError.                       *)
(***************************************************************************)
VectorizerFails(data) ==
    \/ Len(data) < 2
    \/ \A i \in DOMAIN data : data[i].content = ""
    \/ sk.fails

Similarity(data, i, j) ==
    LET a == data[i].idx
        b == data[j].idx
    IN IF a < b THEN sk.sim[<<a, b>>] ELSE sk.sim[<<b, a>>]

\* post_ids = data['post_id'].tolist() if 'post_id' in data.columns
\*            else range(len(data))
PostIdAt(data, i) ==
    IF "post_id" \in df.columns THEN data[i].post_id ELSE i - 1

\* A variant of SimilarityRow that also joins posts whose similarity equals
\* the threshold.
RECURSIVE SimilarityRowAtLeast(_, _, _, _, _)
SimilarityRowAtLeast(G, data, i, j, similarity_threshold) ==
    IF j > Len(data) THEN G
    ELSE IF Similarity(data, i, j) >= similarity_threshold
         THEN SimilarityRowAtLeast(
                  AddEdge(G, PostIdAt(data, i), PostIdAt(data, j),
                          Frac(Similarity(data, i, j), 1000)),
                  data, i, j + 1, similarity_threshold)
         ELSE SimilarityRowAtLeast(G, data, i, j + 1, similarity_threshold)

\* "for j in range(i+1, len(similarity_matrix))" from j on.
RECURSIVE SimilarityRow(_, _, _, _, _)
SimilarityRow(G, data, i, j, similarity_threshold) ==
    IF j > Len(data) THEN G
    ELSE IF Similarity(data, i, j) > similarity_threshold
         THEN SimilarityRow(
                  AddEdge(G, PostIdAt(data, i), PostIdAt(data, j),
                          Frac(Similarity(data, i, j), 1000)),
                  data, i, j + 1, similarity_threshold)
         ELSE SimilarityRow(G, data, i, j + 1, similarity_threshold)

\* "for i in range(len(similarity_matrix))" from i on.
RECURSIVE SimilarityEdges(_, _, _, _)
SimilarityEdges(G, data, i, similarity_threshold) ==
    IF i > Len(data) THEN G
    ELSE SimilarityEdges(SimilarityRow(G, data, i, i + 1, similarity_threshold),
                         data, i + 1, similarity_threshold)

ContentNetwork(data, similarity_threshold) ==
    LET G0 == [NewGraph(FALSE) EXCEPT !.nodes = {PostIdAt(data, i) : i \in DOMAIN data}]
    IN SimilarityEdges(G0, data, 1, similarity_threshold)

(***************************************************************************)
(* calculate_basic_metrics                                                 *)
(*                                                                         *)
(* The graph algorithms are networkx's.  nx.is_connected and               *)
(* nx.is_weakly_connected raise NetworkXPointlessConcept on a graph with   *)
(* no node; nx.diameter raises NetworkXError on a directed graph that is   *)
(* not strongly connected.                                                 *)
(***************************************************************************)
RECURSIVE Reach(_, _)
Reach(adj, S) ==
    LET S2 == S \cup {e[2] : e \in {x \in adj : x[1] \in S}}
    IN IF S2 = S THEN S ELSE Reach(adj, S2)

WeakAdj(G) == G.adj \cup {<<e[2], e[1]>> : e \in G.adj}

\* nx.is_connected(G) / nx.is_weakly_connected(G), for a graph with a node
IsConnected(G) ==
    LET n == CHOOSE x \in G.nodes : TRUE
    IN Reach(WeakAdj(G), {n}) = G.nodes

ConnectedComponents(G) == {Reach(WeakAdj(G), {n}) : n \in G.nodes}

\* max(nx.connected_components(G), key=len), or G itself when connected
LargestCC(G) ==
    CHOOSE c \in ConnectedComponents(G) :
        \A d \in ConnectedComponents(G) : Cardinality(c) >= Cardinality(d)

StronglyConnected(G, comp) ==
    LET inside == {e \in G.adj : e[1] \in comp /\ e[2] \in comp}
    IN \A n \in comp : Reach(inside, {n}) = comp

\* nx.density(G)
Density(G) ==
    LET n == Cardinality(G.nodes)
        m == NumberOfEdges(G)
    IN IF m = 0 \/ n <= 1 THEN Frac(0, 1)
       ELSE IF G.directed THEN FracNorm(Frac(m, n * (n - 1)))
            ELSE FracNorm(Frac(2 * m, n * (n - 1)))

\* The "path lengths" block: no entry when the largest component has one
\* node, zeros when networkx raises, the computed values otherwise.
PathLengths(G) ==
    LET largest_cc == LargestCC(G)
    IN IF Cardinality(largest_cc) > 1
       THEN IF G.directed /\ ~StronglyConnected(G, largest_cc)
            THEN "zeros" ELSE "computed"
       ELSE "absent"

\* return {}
EmptyMetrics ==
    [keys |-> {}, nodes |-> 0, edges |-> 0, density |-> Frac(0, 1),
     is_connected |-> FALSE, path_lengths |-> "absent"]

\* The metrics map of a graph with at least one node.
MetricsOf(G) ==
    [keys |-> {"basic_stats", "degree_stats"}
              \cup (IF ~G.directed THEN {"clustering"} ELSE {})
              \cup (IF PathLengths(G) # "absent" THEN {"path_lengths"} ELSE {})
              \cup (IF ~G.directed /\ NumberOfEdges(G) > 0 THEN {"communities"} ELSE {}),
     nodes |-> Cardinality(G.nodes),
     edges |-> NumberOfEdges(G),
     density |-> Density(G),
     is_connected |-> IsConnected(G),
     path_lengths |-> PathLengths(G)]

\* Whether the call leaves calculate_basic_metrics by an exception: the
\* first dictionary literal evaluates nx.is_connected(G) outside any try.
MetricsRaises(G) == G.nodes = {}

(***************************************************************************)
(* Datasets.  A dataset is read from a CSV file: its row labels are        *)
(* 0, 1, 2, ...  The model draws it from families of small datasets; the   *)
(* rows of a family are listed by row type in a fixed order, which is not  *)
(* the order of the timestamps.                                            *)
(***************************************************************************)
AllColumns ==
    {"post_id", "title", "content", "author", "subreddit", "created_utc",
     "score", "crisis_id"}

\* Row type k of the product authors x subreddits x times x crises.
RowType(k, authors, subreddits, times, crises, content) ==
    LET k0 == k - 1
        nS == Len(subreddits)
        nT == Len(times)
        nC == Len(crises)
    IN [idx |-> 0, post_id |-> <<"p", 0>>,
        author |-> authors[(k0 \div (nS * nT * nC)) + 1],
        subreddit |-> subreddits[((k0 \div (nT * nC)) % nS) + 1],
        created_utc |-> times[((k0 \div nC) % nT) + 1],
        crisis_id |-> crises[(k0 % nC) + 1],
        score |-> (k0 % 3),
        content |-> content]

NonDecreasing(K, n) ==
    {p \in [1..n -> 1..K] : \A i \in 1..n : \A j \in 1..n : i <= j => p[i] <= p[j]}

RowsOfFamily(authors, subreddits, times, crises, content, maxRows) ==
    LET K == Len(authors) * Len(subreddits) * Len(times) * Len(crises)
    IN UNION {
         {[i \in 1..n |->
             [RowType(p[i], authors, subreddits, times, crises, content)
                EXCEPT !.idx = i - 1, !.post_id = <<"p", i - 1>>]]
            : p \in NonDecreasing(K, n)}
         : n \in 0..maxRows}

TimeSlots == [k \in 1..(MaxTimeSlot + 1) |-> (k - 1) * (DefaultWindow \div 2)]

\* Authors and subreddits drawn from the same names, the deleted-author
\* sentinel among the authors.
UserRows ==
    RowsOfFamily(<<"a", "n", DELETED>>, <<"a", "n", UNKNOWN>>,
                 <<0>>, <<"c1">>, "", MaxPosts)

\* Posts of two authors in two subreddits at varying times.
TemporalRows ==
    RowsOfFamily(<<"a", "b">>, <<"s", "t">>, TimeSlots, <<"c1">>, "", MaxTimedPosts)

\* Posts of two crises.
CrisisRows ==
    RowsOfFamily(<<"a", "b">>, <<"a", "s">>, <<0>>, <<"c1", "c2">>, "", MaxPosts)

\* Posts with text, for which scikit-learn's answer is an input.
ContentRows ==
    RowsOfFamily(<<"a", "b">>, <<"s">>, <<0>>, <<"c1">>, "text", MaxTimedPosts)

NoSklearn == [fails |-> TRUE, sim |-> [e \in {} |-> 0]]

SimValues == {DefaultThreshold, DefaultThreshold + 1}

SklearnAnswers(rows) ==
    LET pairs == {p \in (0..(Len(rows) - 1)) \X (0..(Len(rows) - 1)) : p[1] < p[2]}
    IN IF Len(rows) < 2 THEN {NoSklearn}
       ELSE {NoSklearn} \cup {[fails |-> FALSE, sim |-> f] : f \in [pairs -> SimValues]}

(***************************************************************************)
(* The analyzer after construction, and its operations.                    *)
(***************************************************************************)
NoCall ==
    [op |-> "none", name |-> <<>>, args |-> <<>>, status |-> "ok",
     graph |-> NewGraph(FALSE), metrics |-> EmptyMetrics]

Registry(name, G) == (name :> G) @@ networks

\* The LIWC analyzer is not used by the runs of the network analyzer.
LiwcUnused ==
    /\ liwc = [base_rates |-> [c \in {} |-> Frac(0, 1)]]
    /\ table = [index |-> <<>>, columns |-> <<>>, cells |-> <<>>]
    /\ out = [op |-> "none", status |-> "ok"]

\* A cleaner whose clean_dataset was never called.
NoStats ==
    [initial_rows |-> 0, final_rows |-> 0, duplicates_removed |-> 0,
     invalid_rows_removed |-> 0, missing_values_filled |-> 0,
     text_cleaned |-> 0]

\* The cleaner and the collectors are not used by the runs of the analyzers,
\* of the validator and of the scripts.
PipelineUnused ==
    /\ cleaner = [cleaning_stats |-> NoStats]
    /\ input_df = [columns |-> {}, index |-> <<>>, rows |-> <<>>]
    /\ cleaned = [op |-> "none", status |-> "ok"]
    /\ reddit = [r \in {} |-> "ok"]
    /\ collection = [op |-> "none", status |-> "ok"]

\* The quality validator and the scripts are not used by the runs of the
\* analyzers.
ToolsUnused ==
    /\ PipelineUnused
    /\ dataset = [columns |-> {}, float_columns |-> {}, rows |-> <<>>]
    /\ validation = [op |-> "none", status |-> "ok"]
    /\ fs = [d \in {} |-> {}]
    /\ proc = [op |-> "none", status |-> "ok"]

DataFrames(rowsets, columnsets) ==
    {[columns |-> cols, rows |-> rows] : cols \in columnsets, rows \in rowsets}

AnalyzerInit(frames) ==
    /\ df \in frames
    /\ networks = [n \in {} |-> NewGraph(FALSE)]
    /\ metrics = [n \in {} |-> EmptyMetrics]
    /\ ret = NoCall
    /\ prev = NoCall
    /\ calls = 0

BuildUserInteractionNetwork(crisis_id) ==
    /\ calls < MaxCalls
    /\ LET data == Filtered(crisis_id)
           network_name == NetworkName("user_interaction", crisis_id)
           user_network == UserNetwork(data)
       IN /\ networks' = Registry(network_name, user_network)
          /\ ret' = [op |-> "build_user_interaction_network",
                     name |-> network_name, args |-> <<crisis_id>>,
                     status |-> "ok", graph |-> user_network,
                     metrics |-> EmptyMetrics]
    /\ prev' = ret
    /\ calls' = calls + 1
    /\ UNCHANGED <<df, sk, metrics, liwcVars, toolVars, pipelineVars>>

BuildContentSimilarityNetwork(crisis_id, similarity_threshold) ==
    /\ calls < MaxCalls
    /\ LET data == Filtered(crisis_id)
           network_name == NetworkName("content_similarity", crisis_id)
           G == ContentNetwork(data, similarity_threshold)
       IN IF VectorizerFails(data)
          THEN \* except Exception: return nx.Graph()
               /\ networks' = networks
               /\ ret' = [op |-> "build_content_similarity_network",
                          name |-> network_name,
                          args |-> <<crisis_id, similarity_threshold>>,
                          status |-> "ok", graph |-> NewGraph(FALSE),
                          metrics |-> EmptyMetrics]
          ELSE /\ networks' = Registry(network_name, G)
               /\ ret' = [op |-> "build_content_similarity_network",
                          name |-> network_name,
                          args |-> <<crisis_id, similarity_threshold>>,
                          status |-> "ok", graph |-> G,
                          metrics |-> EmptyMetrics]
    /\ prev' = ret
    /\ calls' = calls + 1
    /\ UNCHANGED <<df, sk, metrics, liwcVars, toolVars, pipelineVars>>

BuildTemporalNetwork(crisis_id, time_window_hours) ==
    /\ calls < MaxCalls
    /\ LET data == Filtered(crisis_id)
           network_name == NetworkName("temporal", crisis_id)
           G == TemporalNetwork(data, time_window_hours)
       IN IF "created_utc" \notin df.columns
          THEN \* "No temporal data available": return nx.Graph()
               /\ networks' = networks
               /\ ret' = [op |-> "build_temporal_network",
                          name |-> network_name,
                          args |-> <<crisis_id, time_window_hours>>,
                          status |-> "ok", graph |-> NewGraph(FALSE),
                          metrics |-> EmptyMetrics]
          ELSE /\ networks' = Registry(network_name, G)
               /\ ret' = [op |-> "build_temporal_network",
                          name |-> network_name,
                          args |-> <<crisis_id, time_window_hours>>,
                          status |-> "ok", graph |-> G,
                          metrics |-> EmptyMetrics]
    /\ prev' = ret
    /\ calls' = calls + 1
    /\ UNCHANGED <<df, sk, metrics, liwcVars, toolVars, pipelineVars>>

BuildSubredditNetwork(crisis_id) ==
    /\ calls < MaxCalls
    /\ LET data == Filtered(crisis_id)
           network_name == NetworkName("subreddit", crisis_id)
           G == SubredditNetwork(data)
       IN /\ networks' = Registry(network_name, G)
          /\ ret' = [op |-> "build_subreddit_network",
                     name |-> network_name, args |-> <<crisis_id>>,
                     status |-> "ok", graph |-> G, metrics |-> EmptyMetrics]
    /\ prev' = ret
    /\ calls' = calls + 1
    /\ UNCHANGED <<df, sk, metrics, liwcVars, toolVars, pipelineVars>>

CalculateBasicMetrics(network_name) ==
    /\ calls < MaxCalls
    /\ IF network_name \notin DOMAIN networks
       THEN \* "Network ... not found": return {}
            /\ metrics' = metrics
            /\ ret' = [op |-> "calculate_basic_metrics", name |-> network_name,
                       args |-> <<network_name>>, status |-> "ok",
                       graph |-> NewGraph(FALSE), metrics |-> EmptyMetrics]
       ELSE LET G == networks[network_name]
            IN IF MetricsRaises(G)
               THEN /\ metrics' = metrics
                    /\ ret' = [op |-> "calculate_basic_metrics",
                               name |-> network_name,
                               args |-> <<network_name>>, status |-> "raised",
                               graph |-> G, metrics |-> EmptyMetrics]
               ELSE /\ metrics' = (network_name :> MetricsOf(G)) @@ metrics
                    /\ ret' = [op |-> "calculate_basic_metrics",
                               name |-> network_name,
                               args |-> <<network_name>>, status |-> "ok",
                               graph |-> G, metrics |-> MetricsOf(G)]
    /\ prev' = ret
    /\ calls' = calls + 1
    /\ UNCHANGED <<df, sk, networks, liwcVars, toolVars, pipelineVars>>

(***************************************************************************)
(* analyze_all_networks                                                    *)
(***************************************************************************)
\* The characters of the names of which network names are made.
Characters(name) ==
    CASE name = "user_interaction" ->
             <<"u", "s", "e", "r", "_", "i", "n", "t", "e", "r", "a", "c",
               "t", "i", "o", "n">>
      [] name = "content_similarity" ->
             <<"c", "o", "n", "t", "e", "n", "t", "_", "s", "i", "m", "i",
               "l", "a", "r", "i", "t", "y">>
      [] name = "temporal" -> <<"t", "e", "m", "p", "o", "r", "a", "l">>
      [] name = "subreddit" -> <<"s", "u", "b", "r", "e", "d", "d", "i", "t">>
      [] name = "all" -> <<"a", "l", "l">>
      [] name = "c1" -> <<"c", "1">>
      [] name = "c12" -> <<"c", "1", "2">>
      [] name = "c2" -> <<"c", "2">>

\* f"{kind}_{crisis_id}" or f"{kind}_all"
NameText(network_name) ==
    Characters(network_name[1]) \o <<"_">> \o Characters(network_name[2])

\* part in text, for two strings
Contains(text, part) ==
    \E i \in 0..(Len(text) - Len(part)) :
        SubSeq(text, i + 1, i + Len(part)) = part

\* The four builders called in turn on the registry; a builder that gives
\* up returns an empty graph and registers nothing.
BuildAll(registry, crisis_id) ==
    LET data == Filtered(crisis_id)
        user == (NetworkName("user_interaction", crisis_id) :> UserNetwork(data))
                @@ registry
        content == IF VectorizerFails(data) THEN user
                   ELSE (NetworkName("content_similarity", crisis_id)
                            :> ContentNetwork(data, DefaultThreshold)) @@ user
        temporal == IF "created_utc" \notin df.columns THEN content
                    ELSE (NetworkName("temporal", crisis_id)
                             :> TemporalNetwork(data, DefaultWindow)) @@ content
    IN (NetworkName("subreddit", crisis_id) :> SubredditNetwork(data))
       @@ temporal

\* The names registered by BuildAll.
BuiltBy(crisis_id) ==
    LET data == Filtered(crisis_id)
    IN {NetworkName("user_interaction", crisis_id),
        NetworkName("subreddit", crisis_id)}
       \cup (IF VectorizerFails(data) THEN {}
             ELSE {NetworkName("content_similarity", crisis_id)})
       \cup (IF "created_utc" \notin df.columns THEN {}
             ELSE {NetworkName("temporal", crisis_id)})

\* if crisis_id is None or crisis_id in network_name or 'all' in network_name
Selected(registry, crisis_id) ==
    {n \in DOMAIN registry :
        \/ crisis_id = None
        \/ Contains(NameText(n), Characters(crisis_id))
        \/ Contains(NameText(n), Characters("all"))}

\* The keys of the map returned by identify_crisis_hubs.
HubsOf(G) ==
    (IF G.directed THEN {"high_in_degree", "high_out_degree"}
     ELSE {"high_degree"})
    \cup {"information_brokers", "quick_spreaders", "influence_leaders"}

\* analyze_all_networks(crisis_id): the four builders, each in its own try,
\* then the metrics and the hubs of the selected networks of the registry,
\* each network in its own try.
AnalyzeAllNetworks(crisis_id) ==
    /\ calls < MaxCalls
    /\ \E registry \in {BuildAll(networks, crisis_id)} :
          \E reported \in {{n \in Selected(registry, crisis_id) :
                              ~MetricsRaises(registry[n])}} :
              /\ networks' = registry
              /\ metrics' = [n \in reported |-> MetricsOf(registry[n])]
                            @@ metrics
              /\ ret' = [op |-> "analyze_all_networks", name |-> <<>>,
                         args |-> <<crisis_id>>, status |-> "ok",
                         graph |-> NewGraph(FALSE), metrics |-> EmptyMetrics,
                         built |-> BuiltBy(crisis_id),
                         before |-> DOMAIN networks,
                         all_metrics |->
                             [n \in reported |-> MetricsOf(registry[n])],
                         all_hubs |->
                             [n \in reported |-> HubsOf(registry[n])]]
    /\ prev' = ret
    /\ calls' = calls + 1
    /\ UNCHANGED <<df, sk, liwcVars, toolVars, pipelineVars>>

CrisisArgs == {None, "c1"}
WindowArgs == {DefaultWindow, DefaultWindow \div 2}
ThresholdArgs == {DefaultThreshold}
MetricsArgs == DOMAIN networks \cup {<<"subreddit", "all">>}

(***************************************************************************)
(* Specification of the user-interaction and subreddit networks and their  *)
(* metrics.                                                                *)
(***************************************************************************)
InitUser ==
    /\ AnalyzerInit(
           DataFrames(UserRows, {AllColumns})
           \cup DataFrames(CrisisRows, {AllColumns, AllColumns \ {"crisis_id"}}))
    /\ sk = NoSklearn
    /\ LiwcUnused
    /\ ToolsUnused

NextUser ==
    \/ \E c \in CrisisArgs : BuildUserInteractionNetwork(c)
    \/ \E c \in CrisisArgs : BuildSubredditNetwork(c)
    \/ \E n \in MetricsArgs : CalculateBasicMetrics(n)

SpecUser == InitUser /\ [][NextUser]_vars

(***************************************************************************)
(* Specification of the temporal network.                                  *)
(***************************************************************************)
InitTemporal ==
    /\ AnalyzerInit(
           DataFrames(TemporalRows, {AllColumns})
           \cup DataFrames(CrisisRows, {AllColumns, AllColumns \ {"created_utc"}}))
    /\ sk = NoSklearn
    /\ LiwcUnused
    /\ ToolsUnused

NextTemporal ==
    \E c \in CrisisArgs : \E w \in WindowArgs : BuildTemporalNetwork(c, w)

SpecTemporal == InitTemporal /\ [][NextTemporal]_vars

(***************************************************************************)
(* Specification of the analysis of all networks, crisis by crisis and of  *)
(* the combined dataset, on one analyzer.                                  *)
(***************************************************************************)
\* Posts of two crises of which one identifier begins with the other.
AnalysisRows ==
    RowsOfFamily(<<"a", "b">>, <<"s">>, <<0>>, <<"c1", "c12">>, "", MaxTimedPosts)

AnalysisArgs == {None, "c1", "c12"}

InitAnalysis ==
    /\ AnalyzerInit(
           DataFrames(AnalysisRows, {AllColumns, AllColumns \ {"crisis_id"},
                                     AllColumns \ {"created_utc"}}))
    /\ sk = NoSklearn
    /\ LiwcUnused
    /\ ToolsUnused

NextAnalysis ==
    \E c \in AnalysisArgs : AnalyzeAllNetworks(c)

SpecAnalysis == InitAnalysis /\ [][NextAnalysis]_vars

(***************************************************************************)
(* Specification of the four builders together.                            *)
(***************************************************************************)
InitBuilders ==
    /\ AnalyzerInit(
           DataFrames(ContentRows, {AllColumns, AllColumns \ {"created_utc"}}))
    /\ sk \in SklearnAnswers(df.rows)
    /\ LiwcUnused
    /\ ToolsUnused

NextBuilders ==
    \/ \E c \in CrisisArgs : BuildUserInteractionNetwork(c)
    \/ \E c \in CrisisArgs : \E t \in ThresholdArgs :
          BuildContentSimilarityNetwork(c, t)
    \/ \E c \in CrisisArgs : BuildTemporalNetwork(c, DefaultWindow)
    \/ \E c \in CrisisArgs : BuildSubredditNetwork(c)
    \/ \E n \in MetricsArgs : CalculateBasicMetrics(n)

SpecBuilders == InitBuilders /\ [][NextBuilders]_vars

(***************************************************************************)
(* Part 2.  LIWCCrisisAnalyzer                                             *)
(*                                                                         *)
(* A text is a sequence of characters; a token is a string.  A cell of a   *)
(* table holds a text, a missing value, or a value that is not a string.   *)
(***************************************************************************)
\* The lexicon: the category groups and their categories, in the order of
\* the dictionary, each with its word list.
liwc_categories ==
    <<[group |-> "cognitive_processes", category |-> "cogproc",
       word_list |->
           {"think", "know", "consider", "understand", "realize", "believe",
            "remember", "analyze", "decide", "conclude", "reason",
            "logic"}],
      [group |-> "cognitive_processes", category |-> "causation",
       word_list |->
           {"because", "cause", "due", "since", "reason", "why", "effect",
            "result", "lead", "influence", "impact", "consequence"}],
      [group |-> "cognitive_processes", category |-> "certainty",
       word_list |->
           {"sure", "certain", "definitely", "absolutely", "clearly",
            "obvious", "undoubtedly", "without", "doubt",
            "guarantee", "confirm"}],
      [group |-> "cognitive_processes", category |-> "differentiation",
       word_list |->
           {"but", "however", "although", "whereas", "different",
            "distinguish", "contrast", "unlike", "except",
            "rather"}],
      [group |-> "cognitive_processes", category |-> "discrepancies",
       word_list |->
           {"should", "would", "could", "wish", "hope", "need", "want",
            "expect", "better", "worse", "improve", "change"}],
      [group |-> "cognitive_processes", category |-> "insight",
       word_list |->
           {"understand", "realize", "see", "recognize", "aware", "discover",
            "learn", "find", "notice", "grasp", "comprehend",
            "insight"}],
      [group |-> "cognitive_processes", category |-> "tentative",
       word_list |->
           {"maybe", "perhaps", "might", "possibly", "probably", "seem",
            "appear", "guess", "suppose", "suggest", "uncertain"}],
      [group |-> "cognitive_processes", category |-> "comparison",
       word_list |->
           {"more", "less", "than", "compare", "similar", "same", "like",
            "unlike", "equal", "versus", "between", "among"}],
      [group |-> "perceptual_processes", category |-> "percept",
       word_list |->
           {"see", "hear", "feel", "touch", "taste", "smell", "look", "watch",
            "listen", "observe", "notice", "sense", "perceive"}],
      [group |-> "perceptual_processes", category |-> "see",
       word_list |->
           {"see", "saw", "seen", "look", "watch", "observe", "notice",
            "view", "witness", "spot", "glimpse", "stare", "gaze",
            "glance"}],
      [group |-> "perceptual_processes", category |-> "hear",
       word_list |->
           {"hear", "heard", "listen", "sound", "noise", "voice", "music",
            "loud", "quiet", "silent", "whisper", "shout",
            "scream"}],
      [group |-> "perceptual_processes", category |-> "feel",
       word_list |->
           {"feel", "felt", "touch", "warm", "cold", "hot", "cool", "smooth",
            "rough", "soft", "hard", "pain", "hurt", "comfort"}],
      [group |-> "emotional_processes", category |-> "affect",
       word_list |->
           {"happy", "sad", "angry", "fear", "joy", "love", "hate", "worry",
            "excited", "nervous", "calm", "anxious", "pleased",
            "upset"}],
      [group |-> "emotional_processes", category |-> "posemo",
       word_list |->
           {"happy", "joy", "love", "nice", "good", "great", "excellent",
            "wonderful", "amazing", "perfect", "beautiful",
            "smile", "laugh"}],
      [group |-> "emotional_processes", category |-> "negemo",
       word_list |->
           {"sad", "angry", "hate", "terrible", "awful", "bad", "worst",
            "horrible", "disgusting", "evil", "nasty", "ugly",
            "cry"}],
      [group |-> "emotional_processes", category |-> "anx",
       word_list |->
           {"worry", "fear", "nervous", "anxious", "scared", "afraid",
            "panic", "stress", "tension", "concern", "trouble",
            "problem", "crisis"}],
      [group |-> "emotional_processes", category |-> "anger",
       word_list |->
           {"angry", "mad", "hate", "furious", "rage", "irritated", "annoyed",
            "frustrated", "pissed", "damn", "fight", "argue",
            "attack"}],
      [group |-> "emotional_processes", category |-> "sad",
       word_list |->
           {"sad", "cry", "grief", "sorrow", "tears", "depressed",
            "miserable", "unhappy", "lonely", "hurt", "pain",
            "loss", "death"}],
      [group |-> "emotional_processes", category |-> "swear",
       word_list |->
           {"damn", "hell", "shit", "fuck", "ass", "bitch", "bastard", "crap",
            "piss", "suck", "wtf", "omg", "jesus"}],
      [group |-> "behavioral_responses", category |-> "risk",
       word_list |->
           {"danger", "risk", "threat", "warning", "alert", "emergency",
            "crisis", "hazard", "unsafe", "careful", "caution",
            "avoid", "escape"}],
      [group |-> "behavioral_responses", category |-> "social",
       word_list |->
           {"we", "us", "our", "they", "them", "their", "people", "community",
            "together", "help", "support", "share", "connect",
            "family"}],
      [group |-> "behavioral_responses", category |-> "work",
       word_list |->
           {"work", "job", "office", "business", "company", "employee",
            "boss", "meeting", "project", "task", "duty",
            "responsibility"}],
      [group |-> "behavioral_responses", category |-> "leisure",
       word_list |->
           {"fun", "play", "game", "sport", "entertainment", "vacation",
            "holiday", "party", "celebration", "enjoy", "relax"}],
      [group |-> "behavioral_responses", category |-> "home",
       word_list |->
           {"home", "house", "family", "kitchen", "bedroom", "room",
            "apartment", "neighborhood", "domestic", "household",
            "yard", "garden"}],
      [group |-> "behavioral_responses", category |-> "money",
       word_list |->
           {"money", "dollar", "cost", "expensive", "cheap", "buy", "sell",
            "pay", "price", "budget", "financial", "economic",
            "tax"}],
      [group |-> "behavioral_responses", category |-> "death",
       word_list |->
           {"death", "die", "dead", "kill", "murder", "suicide", "grave",
            "funeral", "cemetery", "victim", "casualty",
            "fatality"}],
      [group |-> "behavioral_responses", category |-> "time",
       word_list |->
           {"time", "hour", "minute", "day", "week", "month", "year", "now",
            "today", "tomorrow", "yesterday", "soon", "late",
            "early"}],
      [group |-> "behavioral_responses", category |-> "space",
       word_list |->
           {"here", "there", "where", "place", "location", "area", "region",
            "city", "country", "north", "south", "east", "west",
            "near"}],
      [group |-> "behavioral_responses", category |-> "motion",
       word_list |->
           {"go", "move", "come", "run", "walk", "drive", "fly", "travel",
            "leave", "arrive", "return", "follow", "chase",
            "escape"}]>>

CategoryNames == [k \in DOMAIN liwc_categories |-> liwc_categories[k].category]

Categories == Range(CategoryNames)

WordList(category) ==
    liwc_categories[CHOOSE k \in DOMAIN liwc_categories :
                        liwc_categories[k].category = category].word_list

\* Missing values of pandas (NaN, None) among the numbers: a fraction with
\* denominator 0.
NaN == <<0, 0>>
IsNaN(v) == v[2] = 0

\* The values a text argument or a content cell can hold.
Str(chars) == [kind |-> "str", chars |-> chars]
Missing == [kind |-> "nan", chars |-> <<>>]      \* float('nan') or None
Number == [kind |-> "int", chars |-> <<>>]       \* a scalar that is no string
ListOfTwo == [kind |-> "list", chars |-> <<>>]   \* a list of two strings

\* pd.isna: a boolean for a scalar, an array of booleans for a list.
Isna(text) ==
    CASE text.kind = "nan" -> "True"
      [] text.kind = "list" -> "array"
      [] OTHER -> "False"

UpperLetters ==
    <<"A", "B", "C", "D", "E", "F", "G", "H", "I", "J", "K", "L", "M",
      "N", "O", "P", "Q", "R", "S", "T", "U", "V", "W", "X", "Y", "Z">>

LowerLetters ==
    <<"a", "b", "c", "d", "e", "f", "g", "h", "i", "j", "k", "l", "m",
      "n", "o", "p", "q", "r", "s", "t", "u", "v", "w", "x", "y", "z">>

Digits == {"0", "1", "2", "3", "4", "5", "6", "7", "8", "9"}

\* str.lower, character by character.
Lower(c) ==
    IF c \in Range(UpperLetters)
    THEN LowerLetters[CHOOSE k \in DOMAIN UpperLetters : UpperLetters[k] = c]
    ELSE c

LowerText(chars) == [i \in DOMAIN chars |-> Lower(chars[i])]

\* \w of the regular expression.
WordCharacters ==
    Range(UpperLetters) \cup Range(LowerLetters) \cup Digits \cup {"_"}

IsWordChar(c) == c \in WordCharacters

\* re.findall(r'\b\w+\b', text): the maximal runs of word characters, from
\* left to right; word is the run being read and words the runs read so far.
RECURSIVE FindAll(_, _, _, _)
FindAll(chars, i, word, words) ==
    IF i > Len(chars)
    THEN IF word = "" THEN words ELSE Append(words, word)
    ELSE IF IsWordChar(chars[i])
         THEN FindAll(chars, i + 1, word \o chars[i], words)
         ELSE FindAll(chars, i + 1, "",
                      IF word = "" THEN words ELSE Append(words, word))

\* A variant of Matches that counts every matching word once.
MatchesDistinct(words, word_list) ==
    Cardinality({words[i] : i \in {k \in DOMAIN words : words[k] \in word_list}})

\* sum(1 for word in words if word in word_list)
Matches(words, word_list) ==
    Cardinality({i \in DOMAIN words : words[i] \in word_list})

ZeroScores == [category \in Categories |-> Frac(0, 1)]

\* calculate_liwc_scores: what the call does (returns or raises) and the
\* scores it returns.
LiwcScores(text) ==
    IF Isna(text) = "array"
    THEN [status |-> "raised", scores |-> ZeroScores]
    ELSE IF Isna(text) = "True" \/ text.kind # "str"
    THEN [status |-> "ok", scores |-> ZeroScores]
    ELSE LET words == FindAll(LowerText(text.chars), 1, "", <<>>)
             total_words == Len(words)
         IN IF total_words = 0
            THEN [status |-> "ok", scores |-> ZeroScores]
            ELSE [status |-> "ok",
                  scores |-> [category \in Categories |->
                      FracNorm(FracMul(Frac(Matches(words, WordList(category)),
                                            total_words),
                                       Frac(100, 1)))]]

\* A table of pandas: the row labels, the column names and, row by row,
\* the cell of every column.
EmptyTable == [index |-> <<>>, columns |-> <<>>, cells |-> <<>>]

PositionOf(index, label) == CHOOSE k \in DOMAIN index : index[k] = label

\* pd.DataFrame(liwc_scores): one row per score map under the labels
\* 0, 1, ...; the columns are the keys of the score maps, none when there
\* is no score map.
ScoresFrame(liwc_scores) ==
    [index |-> [k \in DOMAIN liwc_scores |-> k - 1],
     columns |-> IF liwc_scores = <<>> THEN <<>> ELSE CategoryNames,
     cells |-> liwc_scores]

\* The cells of the row of the given label, missing values where the table
\* has no row of that label.
RowOf(frame, label) ==
    IF label \in Range(frame.index)
    THEN frame.cells[PositionOf(frame.index, label)]
    ELSE [c \in Range(frame.columns) |-> NaN]

\* pd.concat([left, right], axis=1): the rows are matched by label; the
\* result has a row for every label of either table.
Concat(left, right) ==
    LET extra == SelectSeq(right.index, LAMBDA l : l \notin Range(left.index))
        index == IF left.index = right.index THEN left.index
                 ELSE left.index \o extra
    IN [index |-> index,
        columns |-> left.columns \o right.columns,
        cells |-> [k \in DOMAIN index |->
                     RowOf(right, index[k]) @@ RowOf(left, index[k])]]

RECURSIVE InsertByValue(_, _)
InsertByValue(sorted, v) ==
    IF sorted = <<>> THEN <<v>>
    ELSE IF FracLess(v, Head(sorted)) THEN <<v>> \o sorted
    ELSE <<Head(sorted)>> \o InsertByValue(Tail(sorted), v)

RECURSIVE SortedNumbers(_)
SortedNumbers(vs) ==
    IF vs = <<>> THEN <<>>
    ELSE InsertByValue(SortedNumbers(Tail(vs)), Head(vs))

\* Series.median(): the middle of the values that are not missing, the
\* mean of the two middle ones when their number is even.
Median(values) ==
    LET xs == SortedNumbers(SelectSeq(values, LAMBDA v : ~IsNaN(v)))
        n == Len(xs)
    IN IF n = 0 THEN NaN
       ELSE IF n % 2 = 1 THEN xs[(n + 1) \div 2]
       ELSE FracNorm(FracMul(FracAdd(xs[n \div 2], xs[n \div 2 + 1]), Frac(1, 2)))

Column(frame, c) == [k \in DOMAIN frame.cells |-> frame.cells[k][c]]

\* _calculate_base_rates
CalculateBaseRates(liwc_df) ==
    [category \in Range(liwc_df.columns) |-> Median(Column(liwc_df, category))]

\* A variant of Nls that divides whatever the base rate is.
NlsUnguarded(raw, base_rate) ==
    IF IsNaN(raw) \/ IsNaN(base_rate) \/ base_rate[1] = 0 THEN NaN
    ELSE FracNorm(FracMul(<<FracSub(raw, base_rate)[1] * base_rate[2],
                            FracSub(raw, base_rate)[2] * base_rate[1]>>,
                          Frac(100, 1)))

\* The normalised score of one row:
\* ((df[category] - base_rate) / base_rate) * 100 if base_rate > 0, else 0.
Nls(raw, base_rate) ==
    IF ~IsNaN(base_rate) /\ base_rate[1] > 0
    THEN IF IsNaN(raw) THEN NaN
         ELSE FracNorm(FracMul(<<FracSub(raw, base_rate)[1] * base_rate[2],
                                 FracSub(raw, base_rate)[2] * base_rate[1]>>,
                               Frac(100, 1)))
    ELSE Frac(0, 1)

\* self.base_rates.get(category, df[category].median())
BaseRate(df_in, category) ==
    IF category \in DOMAIN liwc.base_rates THEN liwc.base_rates[category]
    ELSE Median(Column(df_in, category))

NlsName(category) == category \o "_nls"

\* calculate_normalized_liwc_scores
NormalizedFrame(df_in) ==
    LET liwc_columns == SelectSeq(df_in.columns, LAMBDA c : c \in Categories)
        added == [k \in DOMAIN liwc_columns |-> NlsName(liwc_columns[k])]
    IN [index |-> df_in.index,
        columns |-> df_in.columns \o
                    SelectSeq(added, LAMBDA c : c \notin Range(df_in.columns)),
        cells |-> [k \in DOMAIN df_in.cells |->
                     [c \in Range(added) |->
                        LET category == liwc_columns[PositionOf(added, c)]
                        IN Nls(df_in.cells[k][category], BaseRate(df_in, category))]
                     @@ df_in.cells[k]]]

(***************************************************************************)
(* The LIWC analyzer after construction, and its operations.               *)
(***************************************************************************)
NoOutput ==
    [op |-> "none", text |-> Missing, status |-> "ok", scores |-> ZeroScores,
     table |-> EmptyTable]

\* The network analyzer is not used by the runs of the LIWC analyzer.
NetworkUnused ==
    /\ df = [columns |-> {}, rows |-> <<>>]
    /\ sk = NoSklearn
    /\ networks = [n \in {} |-> NewGraph(FALSE)]
    /\ metrics = [n \in {} |-> EmptyMetrics]
    /\ ret = NoCall
    /\ prev = NoCall
    /\ calls = 0

CalculateLiwcScores(text) ==
    /\ out' = [op |-> "calculate_liwc_scores", text |-> text,
               status |-> LiwcScores(text).status,
               scores |-> LiwcScores(text).scores,
               table |-> EmptyTable]
    /\ UNCHANGED <<liwc, table, netVars, calls, toolVars, pipelineVars>>

\* analyze_dataset_liwc(df, text_column): df is the table, text_column the
\* default 'content'.
AnalyzeDatasetLiwc ==
    LET text_column == "content"
        results == [k \in DOMAIN table.cells |->
                      LiwcScores(table.cells[k][text_column])]
        liwc_df == ScoresFrame([k \in DOMAIN results |-> results[k].scores])
    IN IF \E k \in DOMAIN results : results[k].status = "raised"
       THEN /\ out' = [NoOutput EXCEPT !.op = "analyze_dataset_liwc",
                                       !.status = "raised"]
            /\ UNCHANGED <<liwc, table, netVars, calls, toolVars, pipelineVars>>
       ELSE /\ out' = [NoOutput EXCEPT !.op = "analyze_dataset_liwc",
                                       !.table = Concat(table, liwc_df)]
            /\ liwc' = [liwc EXCEPT !.base_rates = CalculateBaseRates(liwc_df)]
            /\ UNCHANGED <<table, netVars, calls, toolVars, pipelineVars>>

\* calculate_normalized_liwc_scores(df): df is the table that
\* analyze_dataset_liwc returned.
CalculateNormalizedLiwcScores ==
    /\ out.op = "analyze_dataset_liwc"
    /\ out.status = "ok"
    /\ out' = [NoOutput EXCEPT !.op = "calculate_normalized_liwc_scores",
                               !.table = NormalizedFrame(out.table)]
    /\ UNCHANGED <<liwc, table, netVars, calls, toolVars, pipelineVars>>

(***************************************************************************)
(* The texts and tables the LIWC analyzer is run on.                       *)
(***************************************************************************)
MaxPieces == 3
MaxRows == 2

\* Texts are put together from these pieces: words of the lexicon in upper
\* and lower case, a letter that lengthens a word, and separators.
Pieces ==
    {<<"R", "i", "s", "k">>, <<"d", "a", "n", "g", "e", "r">>,
     <<"s", "e", "e">>, <<"y">>, <<" ">>, <<"-">>}

RECURSIVE TextsOf(_)
TextsOf(n) ==
    IF n = 0 THEN {<<>>}
    ELSE TextsOf(n - 1) \cup {t \o p : t \in TextsOf(n - 1), p \in Pieces}

RECURSIVE Padded(_, _)
Padded(chars, n) ==
    IF n <= 0 THEN chars ELSE Padded(chars \o <<" ", "x">>, n - 1)

\* A text, and the same text lengthened to 20 tokens by a word that is in
\* no word list.
TextInputs ==
    {Str(t) : t \in TextsOf(MaxPieces)}
    \cup {Str(Padded(t, 20 - Len(FindAll(t, 1, "", <<>>)))) : t \in TextsOf(MaxPieces)}
    \cup {Missing, Number, ListOfTwo}

CellTexts ==
    {Str(<<"R", "i", "s", "k">>), Str(<<"R", "i", "s", "k", " ", "x">>),
     Str(<<"x">>), Missing}

\* Row labels: any n different labels out of 0 .. n, in any order.
Indexes(n) ==
    {ix \in [1..n -> 0..n] : \A i \in 1..n : \A j \in 1..n : i # j => ix[i] # ix[j]}

Tables ==
    UNION {{[index |-> ix,
             columns |-> <<"post_id", "content">>,
             cells |-> [k \in 1..n |->
                          [c \in {"post_id", "content"} |->
                             IF c = "content" THEN texts[k] ELSE Str(<<>>)]]] :
               ix \in Indexes(n), texts \in [1..n -> CellTexts]} : n \in 0..MaxRows}

LiwcInit(tables) ==
    /\ liwc = [base_rates |-> [c \in {} |-> Frac(0, 1)]]
    /\ table \in tables
    /\ out = NoOutput

\* The document scorer on the content cell of a row, for texts of every kind.
TextTables ==
    {[index |-> <<0>>,
      columns |-> <<"post_id", "content">>,
      cells |-> <<[c \in {"post_id", "content"} |->
                     IF c = "content" THEN text ELSE Str(<<>>)]>>] :
        text \in TextInputs}

InitScorer == NetworkUnused /\ LiwcInit(TextTables) /\ ToolsUnused

NextScorer ==
    \E k \in DOMAIN table.cells : CalculateLiwcScores(table.cells[k]["content"])

SpecScorer == InitScorer /\ [][NextScorer]_vars

\* The dataset enricher and the normalisation on tables of every index.
InitLiwc == NetworkUnused /\ LiwcInit(Tables) /\ ToolsUnused

NextLiwc ==
    \/ AnalyzeDatasetLiwc
    \/ CalculateNormalizedLiwcScores

SpecLiwc == InitLiwc /\ [][NextLiwc]_vars

\* The table analyze_dataset_liwc returns for a dataset and the score
\* table it computes the base rates from.
ScoresOfDataset(df_in) ==
    ScoresFrame([k \in DOMAIN df_in.cells |->
                    LiwcScores(df_in.cells[k]["content"]).scores])

\* analyze_dataset_liwc(corpus) on one analyzer, dataset after dataset; the
\* caller keeps every table returned, with the dataset it came from.
AnalyzeCorpus(corpus) ==
    /\ calls < MaxCalls
    /\ table' = corpus
    /\ \E liwc_df \in {ScoresOfDataset(corpus)} :
        IF \E k \in DOMAIN corpus.cells :
               LiwcScores(corpus.cells[k]["content"]).status = "raised"
        THEN /\ out' = [out EXCEPT !.op = "analyze_dataset_liwc",
                                   !.status = "raised", !.table = EmptyTable]
             /\ liwc' = liwc
        ELSE /\ out' = [out EXCEPT
                           !.op = "analyze_dataset_liwc",
                           !.status = "ok",
                           !.table = Concat(corpus, liwc_df),
                           !.held = @ \cup {[corpus |-> corpus,
                                             frame |-> Concat(corpus, liwc_df)]}]
             /\ liwc' = [liwc EXCEPT !.base_rates = CalculateBaseRates(liwc_df)]
    /\ calls' = calls + 1
    /\ UNCHANGED <<netVars, toolVars, pipelineVars>>

\* calculate_normalized_liwc_scores(df, group_column) on one of the tables
\* the caller holds.  group_column is not read.
NormalizeHeld(h, group_column) ==
    /\ out.op = "analyze_dataset_liwc"
    /\ \E normalized_df \in {NormalizedFrame(h.frame)} :
          out' = [out EXCEPT !.op = "calculate_normalized_liwc_scores",
                             !.status = "ok",
                             !.table = normalized_df,
                             !.of = h,
                             !.group_column = group_column]
    /\ UNCHANGED <<liwc, table, netVars, calls, toolVars, pipelineVars>>

\* Datasets under the row labels 0, 1, ..
Corpora ==
    UNION {{[index |-> [k \in 1..n |-> k - 1],
             columns |-> <<"post_id", "content">>,
             cells |-> [k \in 1..n |->
                          [c \in {"post_id", "content"} |->
                             IF c = "content" THEN texts[k] ELSE Str(<<>>)]]] :
               texts \in [1..n -> {Str(<<"R", "i", "s", "k">>), Str(<<"x">>)}]} :
             n \in 0..MaxRows}

InitCorpora ==
    /\ NetworkUnused
    /\ liwc = [base_rates |-> [c \in {} |-> Frac(0, 1)]]
    /\ table \in Corpora
    /\ out = [held |-> {}, of |-> [corpus |-> EmptyTable, frame |-> EmptyTable],
              group_column |-> "crisis_id"] @@ NoOutput
    /\ ToolsUnused

NextCorpora ==
    \/ \E corpus \in Corpora : AnalyzeCorpus(corpus)
    \/ \E h \in out.held : \E group_column \in {"crisis_id", "subreddit"} :
          NormalizeHeld(h, group_column)

\* One analyzer used on several datasets.
SpecCorpora == InitCorpora /\ [][NextCorpora]_vars

(***************************************************************************)
(* Resonance+ (calculate_resonance_plus and its four components).          *)
(*                                                                         *)
(* np.log1p and the standardisation of scikit-learn are kept as terms: the *)
(* function and what it is applied to.                                     *)
(***************************************************************************)
Log1p(x) == [fn |-> "log1p", of |-> x]

IsMissingText(cell) == cell.kind = "nan"

\* _calculate_novelty_score: 1.0 / content_counts[x]; value_counts leaves
\* the missing values out, so looking one up raises KeyError.
NoveltyRaises(df_in) ==
    \E k \in DOMAIN df_in.cells : IsMissingText(df_in.cells[k]["content"])

NoveltyScore(df_in, k) ==
    Frac(1, Cardinality({j \in DOMAIN df_in.cells :
                           df_in.cells[j]["content"] = df_in.cells[k]["content"]}))

\* df[columns].fillna(0).sum(axis=1) and df[columns].sum(axis=1), for one
\* row: missing values count for 0.
RECURSIVE RowSum(_, _)
RowSum(row, columns) ==
    IF columns = <<>> THEN Frac(0, 1)
    ELSE LET v == row[Head(columns)]
         IN FracNorm(FracAdd(IF IsNaN(v) THEN Frac(0, 1) ELSE v,
                             RowSum(row, Tail(columns))))

Available(df_in, names) == SelectSeq(names, LAMBDA c : c \in Range(df_in.columns))

engagement_cols == <<"upvotes", "comments", "shares">>

\* _calculate_persistence_score, for one row.
PersistenceScore(df_in, k) ==
    LET available_cols == Available(df_in, engagement_cols)
    IN IF available_cols # <<>>
       THEN Log1p(RowSum(df_in.cells[k], available_cols))
       ELSE Log1p(Frac(Len(df_in.cells[k]["content"].chars), 1))

StartsAt(chars, i, word) ==
    /\ i + Len(word) - 1 <= Len(chars)
    /\ \A j \in DOMAIN word : chars[i + j - 1] = word[j]

\* Series.str.count('|'.join(keywords)): the matches of the alternation
\* from left to right, none overlapping another; at a position the first
\* keyword that matches is taken.
RECURSIVE StrCount(_, _, _)
StrCount(chars, i, keywords) ==
    IF i > Len(chars) THEN 0
    ELSE LET found == {n \in DOMAIN keywords : StartsAt(chars, i, keywords[n])}
         IN IF found = {} THEN StrCount(chars, i + 1, keywords)
            ELSE LET first == CHOOSE n \in found : \A m \in found : n <= m
                 IN 1 + StrCount(chars, i + Len(keywords[first]), keywords)

relevance_categories == <<"risk", "anx", "negemo", "time", "space", "motion">>

crisis_keywords ==
    <<<<"e", "m", "e", "r", "g", "e", "n", "c", "y">>,
      <<"c", "r", "i", "s", "i", "s">>,
      <<"d", "i", "s", "a", "s", "t", "e", "r">>,
      <<"d", "a", "n", "g", "e", "r">>, <<"h", "e", "l", "p">>,
      <<"u", "r", "g", "e", "n", "t">>,
      <<"w", "a", "r", "n", "i", "n", "g">>, <<"a", "l", "e", "r", "t">>,
      <<"e", "v", "a", "c", "u", "a", "t", "i", "o", "n">>,
      <<"r", "e", "s", "c", "u", "e">> >>

\* _calculate_crisis_relevance, for one row.
CrisisRelevance(df_in, k) ==
    LET available_categories == Available(df_in, relevance_categories)
    IN IF available_categories # <<>>
       THEN RowSum(df_in.cells[k], available_categories)
       ELSE Frac(StrCount(LowerText(df_in.cells[k]["content"].chars), 1,
                          crisis_keywords), 1)

cognitive_categories == <<"cogproc", "insight", "certainty", "causation">>

cognitive_keywords ==
    <<<<"t", "h", "i", "n", "k">>, <<"k", "n", "o", "w">>,
      <<"u", "n", "d", "e", "r", "s", "t", "a", "n", "d">>,
      <<"r", "e", "a", "l", "i", "z", "e">>,
      <<"b", "e", "c", "a", "u", "s", "e">>,
      <<"r", "e", "a", "s", "o", "n">>, <<"c", "a", "u", "s", "e">>,
      <<"s", "u", "r", "e">>, <<"c", "e", "r", "t", "a", "i", "n">>,
      <<"i", "n", "s", "i", "g", "h", "t">> >>

\* _calculate_cognitive_resonance, for one row.
CognitiveResonance(df_in, k) ==
    LET available_categories == Available(df_in, cognitive_categories)
    IN IF available_categories # <<>>
       THEN RowSum(df_in.cells[k], available_categories)
       ELSE Frac(StrCount(LowerText(df_in.cells[k]["content"].chars), 1,
                          cognitive_keywords), 1)

resonance_columns ==
    <<"novelty_score", "persistence_score", "crisis_relevance",
      "cognitive_resonance", "resonance_plus", "resonance_plus_normalized">>

\* 0.25 * novelty + 0.25 * persistence + 0.25 * relevance + 0.25 * cognitive
ResonancePlus(df_in, k) ==
    [weights |-> <<Frac(1, 4), Frac(1, 4), Frac(1, 4), Frac(1, 4)>>,
     terms |-> <<NoveltyScore(df_in, k), PersistenceScore(df_in, k),
                 CrisisRelevance(df_in, k), CognitiveResonance(df_in, k)>>]

\* The table calculate_resonance_plus returns.
ResonanceFrame(df_in) ==
    LET plus == [k \in DOMAIN df_in.cells |-> ResonancePlus(df_in, k)]
    IN [index |-> df_in.index,
        columns |-> df_in.columns \o
                    SelectSeq(resonance_columns, LAMBDA c : c \notin Range(df_in.columns)),
        cells |-> [k \in DOMAIN df_in.cells |->
                     [c \in Range(resonance_columns) |->
                        CASE c = "novelty_score" -> NoveltyScore(df_in, k)
                          [] c = "persistence_score" -> PersistenceScore(df_in, k)
                          [] c = "crisis_relevance" -> CrisisRelevance(df_in, k)
                          [] c = "cognitive_resonance" -> CognitiveResonance(df_in, k)
                          [] c = "resonance_plus" -> plus[k]
                          [] OTHER -> [fn |-> "standardized", of |-> plus[k],
                                       among |-> plus]]
                     @@ df_in.cells[k]]]

\* The exception calculate_resonance_plus lets through, "" when it returns:
\* the KeyError of the novelty score, or the ValueError of StandardScaler
\* fitted on no row.
ResonanceError(df_in) ==
    IF NoveltyRaises(df_in) THEN "KeyError"
    ELSE IF df_in.cells = <<>> THEN "ValueError"
    ELSE ""

\* calculate_resonance_plus(df, network_metrics) on the table as it was
\* read (enriched = FALSE) or on the table analyze_dataset_liwc returned.
CalculateResonancePlus(enriched) ==
    /\ out.op \in {"none", "analyze_dataset_liwc"}
    /\ enriched => out.op = "analyze_dataset_liwc" /\ out.status = "ok"
    /\ LET df_in == IF enriched THEN out.table ELSE table
       IN out' = IF ResonanceError(df_in) # ""
                 THEN [NoOutput EXCEPT !.op = "calculate_resonance_plus",
                                       !.status = ResonanceError(df_in)]
                 ELSE [NoOutput EXCEPT !.op = "calculate_resonance_plus",
                                       !.table = ResonanceFrame(df_in)]
    /\ UNCHANGED <<liwc, table, netVars, calls, toolVars, pipelineVars>>

\* The tables given to calculate_resonance_plus: posts under the labels
\* 0, 1, ... with the engagement columns of one of several formats.
ResonanceTexts ==
    {Str(<<"R", "i", "s", "k">>),
     Str(<<"D", "a", "n", "g", "e", "r", " ", "h", "e", "l", "p", " ",
           "b", "e", "c", "a", "u", "s", "e">>),
     Missing}

Engagement ==
    { [score |-> Frac(5, 1), num_comments |-> Frac(2, 1), upvotes |-> Frac(7, 1),
       comments |-> Frac(1, 1), shares |-> NaN],
      [score |-> Frac(0, 1), num_comments |-> Frac(0, 1), upvotes |-> Frac(0, 1),
       comments |-> Frac(4, 1), shares |-> Frac(2, 1)] }

EngagementFormats ==
    { <<>>, <<"score", "num_comments">>, <<"upvotes">>, <<"comments", "shares">>,
      <<"score", "num_comments", "upvotes", "comments", "shares">> }

ResonanceTables ==
    UNION {{[index |-> [k \in 1..n |-> k - 1],
             columns |-> <<"post_id", "content">> \o format,
             cells |-> [k \in 1..n |->
                          [c \in {"post_id", "content"} \cup Range(format) |->
                             CASE c = "content" -> texts[k]
                               [] c = "post_id" -> Str(<<>>)
                               [] OTHER -> signals[k][c]]]] :
               texts \in [1..n -> ResonanceTexts],
               signals \in [1..n -> Engagement],
               format \in EngagementFormats} : n \in 0..MaxRows}

InitResonance == NetworkUnused /\ LiwcInit(ResonanceTables) /\ ToolsUnused

NextResonance ==
    \/ AnalyzeDatasetLiwc
    \/ \E enriched \in BOOLEAN : CalculateResonancePlus(enriched)

SpecResonance == InitResonance /\ [][NextResonance]_vars

(***************************************************************************)
(* Part 3.  QualityValidator (src/src/preprocessing/quality_validator.py)  *)
(*                                                                         *)
(* A cell is [na, v]: na tells a missing value, v is the value otherwise.  *)
(* A timestamp is a number of hours counted from the midnight that starts  *)
(* the day of the call; the call is made at hour now of that day.  A       *)
(* content is known by what the validator                                  *)
(* reads of it: its length, its length once stripped, and the number of    *)
(* spam patterns it contains.                                              *)
(***************************************************************************)
required_columns == <<"title", "content", "author", "created_utc", "score">>

Count(data, Test(_)) == Cardinality({i \in DOMAIN data : Test(data[i])})

\* Arithmetic of floats with nan: nan in, nan out.
NanAdd(p, q) == IF IsNaN(p) \/ IsNaN(q) THEN NaN ELSE FracNorm(FracAdd(p, q))
NanMul(p, q) == IF IsNaN(p) \/ IsNaN(q) THEN NaN ELSE FracNorm(FracMul(p, q))

RECURSIVE Sum(_)
Sum(values) == IF values = <<>> THEN Frac(0, 1) ELSE NanAdd(Head(values), Sum(Tail(values)))

\* np.mean of a list that is not empty.
Mean(values) == NanMul(Sum(values), Frac(1, Len(values)))

\* (count / len(df)) * 100 where count is a numpy integer: nan for 0 / 0.
Percentage(count, n) == IF n = 0 THEN NaN ELSE FracNorm(Frac(count * 100, n))

\* max(0, 100 - rate)
ScoreLeft(rate) ==
    IF FracLess(Frac(100, 1), rate) THEN Frac(0, 1)
    ELSE FracNorm(FracSub(Frac(100, 1), rate))

\* A variant of ColumnCompleteness that leaves an absent column out of account.
ColumnCompletenessOfPresent(d, col) ==
    IF col \in d.columns
    THEN LET missing_pct == Percentage(Count(d.rows, LAMBDA row : row[col].na),
                                       Len(d.rows))
         IN IF IsNaN(missing_pct) THEN NaN
            ELSE FracNorm(FracSub(Frac(100, 1), missing_pct))
    ELSE Frac(100, 1)

\* _check_completeness: column_completeness of a required column.
ColumnCompleteness(d, col) ==
    IF col \in d.columns
    THEN LET missing_pct == Percentage(Count(d.rows, LAMBDA row : row[col].na),
                                       Len(d.rows))
         IN IF IsNaN(missing_pct) THEN NaN
            ELSE FracNorm(FracSub(Frac(100, 1), missing_pct))
    ELSE Frac(0, 1)

\* _check_completeness: the score.
CheckCompleteness(d) ==
    Mean([k \in DOMAIN required_columns |-> ColumnCompleteness(d, required_columns[k])])

\* _check_consistency: the issue counters.
TimestampIssues(d, now) ==
    IF "created_utc" \in d.columns
    THEN Count(d.rows, LAMBDA row : ~row.created_utc.na /\ row.created_utc.v > now)
    ELSE 0

NegativeScores(d) ==
    IF "score" \in d.columns
    THEN Count(d.rows, LAMBDA row : ~row.score.na /\ row.score.v < 0)
    ELSE 0

InvalidRatios(d) ==
    IF "upvote_ratio" \in d.columns
    THEN Count(d.rows, LAMBDA row :
                 /\ ~row.upvote_ratio.na
                 /\ \/ FracLess(row.upvote_ratio.v, Frac(0, 1))
                    \/ FracLess(Frac(1, 1), row.upvote_ratio.v))
    ELSE 0

EmptyContent(d) ==
    IF "content" \in d.columns
    THEN Count(d.rows, LAMBDA row : ~row.content.na /\ row.content.v.stripped = 0)
    ELSE 0

TotalIssues(d, now) ==
    TimestampIssues(d, now) + NegativeScores(d) + InvalidRatios(d) + EmptyContent(d)

\* issue_rate = (total_issues / len(df)) * 100 divides two Python integers:
\* ZeroDivisionError when the table has no row.
ConsistencyRaises(d) == Len(d.rows) = 0

\* A variant of CheckConsistency without the floor at 0.
CheckConsistencyUnfloored(d, now) ==
    FracNorm(FracSub(Frac(100, 1), Frac(TotalIssues(d, now) * 100, Len(d.rows))))

\* _check_consistency: the score.
CheckConsistency(d, now) == ScoreLeft(Frac(TotalIssues(d, now) * 100, Len(d.rows)))

\* pandas refuses the .str accessor on a column that is not of strings: a
\* column whose cells are all missing may have been read as float64.
StrRaises(d, col) == col \in d.columns /\ col \in d.float_columns

\* The calendar day of a moment given in hours.
DayOf(t) == t \div 24

Timestamps(d) ==
    {d.rows[i].created_utc.v : i \in {j \in DOMAIN d.rows : ~d.rows[j].created_utc.na}}

SetMin(S) == CHOOSE x \in S : \A y \in S : x <= y
SetMax(S) == CHOOSE x \in S : \A y \in S : y <= x

\* pd.date_range(start, end, freq='D'): start, start + 1 day, ... up to end.
DateRange(start, end) == {start + 24 * k : k \in 0..((end - start) \div 24)}

\* _check_temporal_coverage: the coverage score.  Without a timestamp
\* min() is NaT, strftime raises, and the handler keeps the default 0.0.
CheckTemporalCoverage(d) ==
    IF "created_utc" \notin d.columns \/ Timestamps(d) = {}
    THEN Frac(0, 1)
    ELSE LET timestamps == Timestamps(d)
             date_range == DateRange(SetMin(timestamps), SetMax(timestamps))
             posts_by_date == {DayOf(t) : t \in timestamps}
             missing_dates == {t \in date_range : DayOf(t) \notin posts_by_date}
         IN FracNorm(Frac((Cardinality(date_range) - Cardinality(missing_dates)) * 100,
                          Cardinality(date_range)))

\* _check_content_quality: the counters.
TooShort(d) ==
    IF "content" \in d.columns
    THEN Count(d.rows, LAMBDA row : ~row.content.na /\ row.content.v.len < 20)
    ELSE 0

TooLong(d) ==
    IF "content" \in d.columns
    THEN Count(d.rows, LAMBDA row : ~row.content.na /\ row.content.v.len > 10000)
    ELSE 0

RECURSIVE SpamIndicators(_, _)
SpamIndicators(d, k) ==
    IF "content" \notin d.columns \/ k = 0 THEN 0
    ELSE (IF d.rows[k].content.na THEN 0 ELSE d.rows[k].content.v.spam)
         + SpamIndicators(d, k - 1)

ContentIssues(d) == TooShort(d) + TooLong(d) + SpamIndicators(d, Len(d.rows))

\* issues_pct divides two Python integers as well.
ContentQualityRaises(d) == Len(d.rows) = 0

\* _check_content_quality: the score.
CheckContentQuality(d) == ScoreLeft(Frac(ContentIssues(d) * 100, Len(d.rows)))

\* value_counts().iloc[0] / len(df) * 100, or 0 when no value is counted.
TopPercentage(d, col) ==
    LET values == {d.rows[i][col].v : i \in {j \in DOMAIN d.rows : ~d.rows[j][col].na}}
        counts == {Count(d.rows, LAMBDA row : ~row[col].na /\ row[col].v = v) : v \in values}
    IN IF values = {} THEN Frac(0, 1)
       ELSE FracNorm(Frac(SetMax(counts) * 100, Len(d.rows)))

\* _check_data_distribution: the balance score.
CheckDataDistribution(d) ==
    LET authors == IF "author" \in d.columns
                   THEN <<FracNorm(FracSub(Frac(100, 1), TopPercentage(d, "author")))>>
                   ELSE <<>>
        subreddits == IF "subreddit" \in d.columns
                      THEN <<FracNorm(FracSub(Frac(100, 1), TopPercentage(d, "subreddit")))>>
                      ELSE <<>>
        concentration_scores == authors \o subreddits
    IN IF concentration_scores = <<>> THEN Frac(0, 1) ELSE Mean(concentration_scores)

\* A variant of score_weights (below): temporal coverage at 25, content
\* quality at 10.
score_weights_in_listed_order ==
    << [section |-> "completeness",      key |-> "score",          weight |-> 30],
       [section |-> "consistency",       key |-> "score",          weight |-> 25],
       [section |-> "content_quality",   key |-> "quality_score",  weight |-> 10],
       [section |-> "temporal_coverage", key |-> "coverage_score", weight |-> 25],
       [section |-> "data_distribution", key |-> "balance_score",  weight |-> 10] >>

\* The sub-scores _calculate_overall_score reads, in the order it reads
\* them, each with its weight in hundredths.
score_weights ==
    << [section |-> "completeness",      key |-> "score",          weight |-> 30],
       [section |-> "consistency",       key |-> "score",          weight |-> 25],
       [section |-> "content_quality",   key |-> "quality_score",  weight |-> 25],
       [section |-> "temporal_coverage", key |-> "coverage_score", weight |-> 10],
       [section |-> "data_distribution", key |-> "balance_score",  weight |-> 10] >>

Present(results, w) ==
    w.section \in DOMAIN results /\ w.key \in DOMAIN results[w.section]

RECURSIVE WeightedSum(_, _, _)
WeightedSum(results, table_, k) ==
    IF k = 0 THEN Frac(0, 1)
    ELSE LET w == table_[k]
             rest == WeightedSum(results, table_, k - 1)
         IN IF Present(results, w)
            THEN NanAdd(rest, NanMul(results[w.section][w.key], Frac(w.weight, 1)))
            ELSE rest

RECURSIVE TotalWeight(_, _, _)
TotalWeight(results, table_, k) ==
    IF k = 0 THEN 0
    ELSE (IF Present(results, table_[k]) THEN table_[k].weight ELSE 0)
         + TotalWeight(results, table_, k - 1)

\* _calculate_overall_score
CalculateOverallScore(results) ==
    LET total_weight == TotalWeight(results, score_weights, Len(score_weights))
    IN IF total_weight = 0 THEN Frac(0, 1)
       ELSE NanMul(WeightedSum(results, score_weights, Len(score_weights)),
                   Frac(1, total_weight))

RawResults(d, now) ==
    [completeness      |-> [score |-> CheckCompleteness(d)],
     consistency       |-> [timestamp_issues |-> TimestampIssues(d, now),
                            negative_scores  |-> NegativeScores(d),
                            invalid_ratios   |-> InvalidRatios(d),
                            empty_content    |-> EmptyContent(d),
                            score            |-> CheckConsistency(d, now)],
     temporal_coverage |-> [coverage_score |-> CheckTemporalCoverage(d)],
     content_quality   |-> [too_short_count |-> TooShort(d),
                            too_long_count  |-> TooLong(d),
                            spam_indicators |-> SpamIndicators(d, Len(d.rows)),
                            quality_score   |-> CheckContentQuality(d)],
     data_distribution |-> [balance_score |-> CheckDataDistribution(d)]]

\* The exception validate_dataset lets through, "" when it returns.
ValidationError(d) ==
    IF StrRaises(d, "content") THEN "AttributeError"
    ELSE IF ConsistencyRaises(d) THEN "ZeroDivisionError"
    ELSE IF StrRaises(d, "title") THEN "AttributeError"
    ELSE IF ContentQualityRaises(d) THEN "ZeroDivisionError"
    ELSE ""

\* validate_dataset(df) without a crisis configuration.
ValidateDataset(now) ==
    /\ validation.op = "none"
    /\ validation' =
         IF ValidationError(dataset) # ""
         THEN [op |-> "validate_dataset", now |-> now, status |-> "raised",
               error |-> ValidationError(dataset)]
         ELSE [op |-> "validate_dataset", now |-> now, status |-> "ok",
               results |-> [s \in DOMAIN RawResults(dataset, now) \cup {"overall_score"} |->
                              IF s = "overall_score"
                              THEN CalculateOverallScore(RawResults(dataset, now))
                              ELSE RawResults(dataset, now)[s]]]
    /\ UNCHANGED <<dataset, fs, proc, netVars, liwcVars, calls,
                   pipelineVars>>

\* _calculate_overall_score(results) called on a map of sub-scores.
CalculateOverallScoreOf(results) ==
    /\ validation.op = "none"
    /\ validation' = [op |-> "_calculate_overall_score", status |-> "ok",
                      results |-> results,
                      overall_score |-> CalculateOverallScore(results)]
    /\ UNCHANGED <<dataset, fs, proc, netVars, liwcVars, calls,
                   pipelineVars>>

(***************************************************************************)
(* The datasets given to the validator.                                    *)
(***************************************************************************)
MaxRecords == 3

Cell(v) == [na |-> FALSE, v |-> v]
NoCell == [na |-> TRUE, v |-> 0]
Content(len, stripped, spam) == Cell([len |-> len, stripped |-> stripped, spam |-> spam])
NoContent == [na |-> TRUE, v |-> [len |-> 0, stripped |-> 0, spam |-> 0]]
NoRatio == [na |-> TRUE, v |-> Frac(0, 1)]
NoText == [na |-> TRUE, v |-> ""]

QualityColumns ==
    {"title", "content", "author", "created_utc", "score", "upvote_ratio", "subreddit"}

\* The kinds of record: two sound ones, one wrong in every respect (a post
\* of blanks dated in the future with a negative score and a ratio of 3/2),
\* one overlong post matching the three spam patterns, one without content,
\* one with every cell missing.
Records ==
    << [title |-> Cell("t"), content |-> Content(50, 50, 0), author |-> Cell("u1"),
        created_utc |-> Cell(-38), score |-> Cell(5),
        upvote_ratio |-> Cell(Frac(9, 10)), subreddit |-> Cell("s1")],
       [title |-> Cell("t"), content |-> Content(30, 28, 0), author |-> Cell("u2"),
        created_utc |-> Cell(-14), score |-> Cell(0),
        upvote_ratio |-> Cell(Frac(1, 1)), subreddit |-> Cell("s2")],
       [title |-> Cell("t"), content |-> Content(3, 0, 0), author |-> Cell("u1"),
        created_utc |-> Cell(30), score |-> Cell(-2),
        upvote_ratio |-> Cell(Frac(3, 2)), subreddit |-> Cell("s1")],
       [title |-> Cell("t"), content |-> Content(10001, 10001, 3), author |-> Cell("u2"),
        created_utc |-> Cell(6), score |-> Cell(1),
        upvote_ratio |-> Cell(Frac(1, 2)), subreddit |-> Cell("s1")],
       [title |-> Cell("t"), content |-> NoContent, author |-> Cell("u3"),
        created_utc |-> Cell(-14), score |-> Cell(2),
        upvote_ratio |-> Cell(Frac(0, 1)), subreddit |-> Cell("s2")],
       [title |-> NoText, content |-> NoContent, author |-> NoText,
        created_utc |-> NoCell, score |-> NoCell,
        upvote_ratio |-> NoRatio, subreddit |-> NoText] >>

ColumnSets ==
    { QualityColumns,
      {"title", "content", "author", "created_utc", "score"},
      {"title", "content", "author"},
      {"title"} }

\* A column of text whose cells are all missing may be of dtype float64.
FloatColumnSets(columns, rows) ==
    SUBSET {col \in {"title", "content"} \cap columns :
              /\ rows # <<>>
              /\ \A i \in DOMAIN rows : rows[i][col].na}

QualityDatasets ==
    UNION {
      UNION {
        LET rows == [i \in 1..n |-> [col \in columns |-> Records[p[i]][col]]]
        IN {[columns |-> columns, float_columns |-> floats, rows |-> rows] :
              floats \in FloatColumnSets(columns, rows)}
        : p \in NonDecreasing(Len(Records), n) }
      : <<n, columns>> \in (0..MaxRecords) \X ColumnSets }

\* The moments of the day at which the validator is called.
Clock == {0, 12}

\* Maps of sub-scores given to _calculate_overall_score: that of the test,
\* one without temporal coverage, an empty one.
ScoreMaps ==
    { [completeness |-> [score |-> Frac(90, 1)],
       consistency |-> [score |-> Frac(85, 1)],
       content_quality |-> [quality_score |-> Frac(80, 1)],
       temporal_coverage |-> [coverage_score |-> Frac(75, 1)],
       data_distribution |-> [balance_score |-> Frac(70, 1)]],
      [completeness |-> [score |-> Frac(90, 1)],
       consistency |-> [score |-> Frac(85, 1)],
       content_quality |-> [quality_score |-> Frac(80, 1)],
       data_distribution |-> [balance_score |-> Frac(70, 1)]],
      [overall_score |-> [value |-> Frac(0, 1)]] }

InitValidator ==
    /\ NetworkUnused
    /\ LiwcUnused
    /\ dataset \in QualityDatasets
    /\ validation = [op |-> "none", status |-> "ok"]
    /\ fs = [d \in {} |-> {}]
    /\ proc = [op |-> "none", status |-> "ok"]
    /\ PipelineUnused

NextValidator ==
    \/ \E now \in Clock : ValidateDataset(now)
    \/ \E results \in ScoreMaps : CalculateOverallScoreOf(results)

SpecValidator == InitValidator /\ [][NextValidator]_vars

(***************************************************************************)
(* Part 4.  The scripts (src/scripts).                                     *)
(*                                                                         *)
(* A path is the sequence of its names from the top of the file system;    *)
(* fs gives the entry of every path that exists.                           *)
(***************************************************************************)
File == [kind |-> "file"]
Dir == [kind |-> "dir"]

Exists(files, path) == path \in DOMAIN files

IsDir(files, path) == Exists(files, path) /\ files[path].kind = "dir"

\* path is at or below top.
Under(path, top) == Len(top) <= Len(path) /\ SubSeq(path, 1, Len(top)) = top

\* Path.parents[n]
Parents(path, n) == SubSeq(path, 1, Len(path) - 1 - n)

\* shutil.rmtree(path) of a directory, path.unlink() of a file.
Remove(files, gone) ==
    [path \in {q \in DOMAIN files : \A g \in gone : ~Under(q, g)} |-> files[path]]

(***************************************************************************)
(* clean_workspace.py                                                      *)
(***************************************************************************)
REPO_MARKERS == <<"README.md", "src", "dashboard", "config">>

in_repo_root(files, root) ==
    \A k \in DOMAIN REPO_MARKERS : Exists(files, root \o <<REPO_MARKERS[k]>>)

\* list_contents of a directory that exists.
list_contents(files, folder) ==
    {path \in DOMAIN files : Len(path) = Len(folder) + 1 /\ Under(path, folder)}

\* A variant of Spared that spares nothing.
SparedNothing(files, folder, keep_reports) == {}

\* The children clean_folder keeps.
Spared(files, folder, keep_reports) ==
    IF keep_reports /\ folder[Len(folder)] = "results"
    THEN {child \in list_contents(files, folder) :
            IsDir(files, child) /\ child[Len(child)] = "reports"}
    ELSE {}

\* clean_folder, added to what the run did so far: the file system, the
\* paths deleted, those a dry run names, those kept and those skipped.
\* iterdir raises NotADirectoryError on a target that is a file.
clean_folder(run, folder, keep_reports, dry_run) ==
    IF run.status # "ok" THEN run
    ELSE IF ~Exists(run.files, folder)
    THEN [run EXCEPT !.skipped = @ \cup {folder}]
    ELSE IF ~IsDir(run.files, folder)
    THEN [run EXCEPT !.status = "NotADirectoryError"]
    ELSE LET kept == Spared(run.files, folder, keep_reports)
             doomed == list_contents(run.files, folder) \ kept
         IN IF dry_run
            THEN [run EXCEPT !.kept = @ \cup kept, !.would_delete = @ \cup doomed]
            ELSE [run EXCEPT !.kept = @ \cup kept, !.deleted = @ \cup doomed,
                             !.files = Remove(@, doomed)]

\* repo_root = Path(__file__).resolve().parents[2]
RepoRoot(script) == Parents(script, 2)

\* The targets in the order main appends them.
Targets(repo_root, args) ==
    (IF args.all \/ args.raw THEN <<repo_root \o <<"data", "raw">>>> ELSE <<>>)
    \o (IF args.all \/ args.processed THEN <<repo_root \o <<"data", "processed">>>> ELSE <<>>)
    \o (IF args.all \/ args.networks THEN <<repo_root \o <<"data", "networks">>>> ELSE <<>>)
    \o (IF args.all \/ args.results THEN <<repo_root \o <<"results">>>> ELSE <<>>)
    \o (IF args.all \/ args.logs THEN <<repo_root \o <<"logs">>>> ELSE <<>>)

\* A variant of DryRun that --yes alone decides.
DryRunUnlessYes(args) == ~args.yes

\* dry_run = args.dry_run or not args.yes
DryRun(args) == args.dry_run \/ ~args.yes

RECURSIVE CleanFolders(_, _, _, _)
CleanFolders(run, targets, keep_reports, dry_run) ==
    IF targets = <<>> THEN run
    ELSE CleanFolders(clean_folder(run, Head(targets), keep_reports, dry_run),
                      Tail(targets), keep_reports, dry_run)

\* main() of the script stored at the path script.
CleanMain(files, script, args) ==
    LET repo_root == RepoRoot(script)
        targets == Targets(repo_root, args)
        dry_run == DryRun(args)
        start == [files |-> files, status |-> "ok", deleted |-> {},
                  would_delete |-> {}, kept |-> {}, skipped |-> {}]
        idle == [op |-> "clean_workspace", status |-> "ok", script |-> script,
                 args |-> args, repo_root |-> repo_root, exit |-> 0,
                 mode |-> "none", targets |-> <<>>, deleted |-> {},
                 would_delete |-> {}, kept |-> {}, skipped |-> {}]
    IN IF ~in_repo_root(files, repo_root)
       THEN [files |-> files, proc |-> [idle EXCEPT !.exit = 2]]
       ELSE IF targets = <<>>
       THEN [files |-> files, proc |-> idle]
       ELSE LET run == CleanFolders(start, targets, args.keep_reports, dry_run)
            IN [files |-> run.files,
                proc |-> [idle EXCEPT
                            !.status = IF run.status = "ok" THEN "ok" ELSE "raised",
                            !.exit = IF run.status = "ok" THEN 0 ELSE 1,
                            !.mode = IF dry_run THEN "DRY-RUN" ELSE "DELETE",
                            !.targets = targets,
                            !.deleted = run.deleted,
                            !.would_delete = run.would_delete,
                            !.kept = run.kept,
                            !.skipped = run.skipped]]

CleanWorkspace(script, args) ==
    /\ proc.op = "none"
    /\ Exists(fs, script)
    /\ fs' = CleanMain(fs, script, args).files
    /\ proc' = CleanMain(fs, script, args).proc
    /\ UNCHANGED <<dataset, validation, netVars, liwcVars, calls,
                   pipelineVars>>

\* The file systems the cleanup is run in.  The project is /home/repo; the
\* directory above it, /home, is either plain or a checkout of its own
\* with the same markers and its own results and logs.
Tree(entries) ==
    [path \in {e[1] : e \in entries} |-> (CHOOSE e \in entries : e[1] = path)[2]]

Checkout(root, markers) ==
    {<<root, Dir>>}
    \cup {<<root \o <<m>>, IF m = "README.md" THEN File ELSE Dir>> : m \in markers}

ScriptAt(folder) ==
    {<<SubSeq(folder, 1, k), Dir>> : k \in 1..Len(folder)}
    \cup {<<folder \o <<"clean_workspace.py">>, File>>}

\* What a project holds under data, results and logs.
Holdings(root, variant) ==
    CASE variant = "usual" ->
           {<<root \o <<"data">>, Dir>>,
            <<root \o <<"data", "raw">>, Dir>>,
            <<root \o <<"data", "raw", "posts.csv">>, File>>,
            <<root \o <<"data", "processed">>, Dir>>,
            <<root \o <<"results">>, Dir>>,
            <<root \o <<"results", "reports">>, Dir>>,
            <<root \o <<"results", "reports", "report.md">>, File>>,
            <<root \o <<"results", "run1">>, Dir>>,
            <<root \o <<"results", "run1", "metrics.json">>, File>>,
            <<root \o <<"results", "summary.txt">>, File>>,
            <<root \o <<"logs">>, Dir>>,
            <<root \o <<"logs", "app.log">>, File>>}
      [] variant = "odd" ->
           {<<root \o <<"data">>, Dir>>,
            <<root \o <<"data", "networks">>, Dir>>,
            <<root \o <<"data", "networks", "reports">>, Dir>>,
            <<root \o <<"data", "networks", "reports", "g.gexf">>, File>>,
            <<root \o <<"results">>, Dir>>,
            <<root \o <<"results", "reports">>, File>>,
            <<root \o <<"results", "figures">>, Dir>>,
            <<root \o <<"logs">>, File>>}
      [] OTHER ->
           {<<root \o <<"results">>, Dir>>,
            <<root \o <<"results", "reports">>, Dir>>}

Home == <<"home">>
Project == <<"home", "repo">>

ScriptFolders == {Project \o <<"scripts">>, Project \o <<"tools", "scripts">>}

MarkerSets == {Range(REPO_MARKERS), Range(REPO_MARKERS) \ {"config"}}

FileSystems ==
    {Tree(Checkout(Project, markers) \cup ScriptAt(folder)
          \cup Holdings(Project, variant) \cup above) :
       markers \in MarkerSets,
       folder \in ScriptFolders,
       variant \in {"usual", "odd", "bare"},
       above \in {{<<Home, Dir>>},
                  Checkout(Home, Range(REPO_MARKERS)) \cup Holdings(Home, "usual")}}

Flags(names, keep_reports, dry_run, yes) ==
    [raw |-> "raw" \in names, processed |-> "processed" \in names,
     networks |-> "networks" \in names, results |-> "results" \in names,
     logs |-> "logs" \in names, all |-> "all" \in names,
     keep_reports |-> keep_reports, dry_run |-> dry_run, yes |-> yes]

TargetFlags ==
    {{}, {"results"}, {"raw", "processed"}, {"networks", "logs"}, {"all"},
     {"results", "logs"}}

CleanArgs ==
    {Flags(names, keep_reports, dry_run, yes) :
       names \in TargetFlags, keep_reports \in BOOLEAN,
       dry_run \in BOOLEAN, yes \in BOOLEAN}

InitClean ==
    /\ NetworkUnused
    /\ LiwcUnused
    /\ dataset = [columns |-> {}, float_columns |-> {}, rows |-> <<>>]
    /\ validation = [op |-> "none", status |-> "ok"]
    /\ fs \in FileSystems
    /\ proc = [op |-> "none", status |-> "ok"]
    /\ PipelineUnused

NextClean ==
    \E folder \in ScriptFolders, args \in CleanArgs :
        CleanWorkspace(folder \o <<"clean_workspace.py">>, args)

SpecClean == InitClean /\ [][NextClean]_vars

(***************************************************************************)
(* combine_csvs.py                                                         *)
(*                                                                         *)
(* A CSV file is [kind, header, lines]: the names of its columns and, line *)
(* by line, the text of every cell (a sequence of characters).  A file of  *)
(* no bytes has no header.                                                 *)
(***************************************************************************)
Csv(header, lines) == [kind |-> "file", header |-> header, lines |-> lines]

DigitCharacters == <<"0", "1", "2", "3", "4", "5", "6", "7", "8", "9">>

IsIntegerText(chars) ==
    chars # <<>> /\ \A i \in DOMAIN chars : chars[i] \in Range(DigitCharacters)

RECURSIVE IntegerOf(_)
IntegerOf(chars) ==
    IF chars = <<>> THEN 0
    ELSE 10 * IntegerOf(SubSeq(chars, 1, Len(chars) - 1))
         + (CHOOSE d \in 0..9 : DigitCharacters[d + 1] = chars[Len(chars)])

RECURSIVE TextOf(_)
TextOf(n) ==
    IF n < 10 THEN <<DigitCharacters[n + 1]>>
    ELSE TextOf(n \div 10) \o <<DigitCharacters[(n % 10) + 1]>>

\* The values of a table read from CSV files.
IntValue(n) == [type |-> "int", n |-> n]
StrValue(chars) == [type |-> "str", s |-> chars]
NanValue == [type |-> "nan"]
DateValue(chars) == [type |-> "datetime", date |-> chars]
NaTValue == [type |-> "NaT"]

\* pd.read_csv, one column: integers when every cell of the column reads
\* as an integer, text otherwise.
ReadColumn(lines, col) ==
    IF lines # <<>> /\ \A k \in DOMAIN lines : IsIntegerText(lines[k][col])
    THEN [k \in DOMAIN lines |-> IntValue(IntegerOf(lines[k][col]))]
    ELSE [k \in DOMAIN lines |-> StrValue(lines[k][col])]

\* read_csv_safely: the table of the file, with the column __source_file.
read_csv_safely(files, path) ==
    LET file == files[path]
    IN [columns |-> file.header \o <<"__source_file">>,
        rows |-> [k \in DOMAIN file.lines |->
                    [c \in Range(file.header) \cup {"__source_file"} |->
                       IF c = "__source_file" THEN [type |-> "str", s |-> path]
                       ELSE ReadColumn(file.lines, c)[k]]]]

\* pd.read_csv raises IsADirectoryError on a directory and EmptyDataError
\* on a file of no bytes.
ReadRaises(files, path) == IsDir(files, path) \/ files[path].header = <<>>

\* pd.concat(frames, ignore_index=True, sort=False): the rows one table
\* after the other under the union of the columns, in the order of their
\* first appearance; missing where a table has no such column.
RECURSIVE ConcatRows(_)
ConcatRows(frames) ==
    IF frames = <<>> THEN [columns |-> <<>>, rows |-> <<>>]
    ELSE LET rest == ConcatRows(SubSeq(frames, 1, Len(frames) - 1))
             last == frames[Len(frames)]
             columns == rest.columns \o
                        SelectSeq(last.columns, LAMBDA c : c \notin Range(rest.columns))
             Widen(row) == [c \in Range(columns) |->
                              IF c \in DOMAIN row THEN row[c] ELSE NanValue]
         IN [columns |-> columns,
             rows |-> [k \in 1..(Len(rest.rows) + Len(last.rows)) |->
                         IF k <= Len(rest.rows) THEN Widen(rest.rows[k])
                         ELSE Widen(last.rows[k - Len(rest.rows)])]]

\* combined.head(limit)
HeadRows(frame, limit) ==
    [frame EXCEPT !.rows = SubSeq(@, 1, IF limit < Len(@) THEN limit ELSE Len(@))]

\* The texts pd.to_datetime reads as a date.
DateTexts == {<<"2", "0", "2", "5", "-", "0", "1", "-", "0", "1">>}

\* pd.to_datetime(value, errors="coerce"); an integer counts nanoseconds.
ToDatetime(value) ==
    CASE value.type = "str" ->
           IF value.s \in DateTexts THEN DateValue(value.s) ELSE NaTValue
      [] value.type = "int" -> [type |-> "datetime", ns |-> value.n]
      [] value.type = "datetime" -> value
      [] OTHER -> NaTValue

timestamp_columns == {"created_utc", "timestamp", "created_at"}

normalize_timestamps(frame) ==
    [frame EXCEPT !.rows =
        [k \in DOMAIN @ |->
           [c \in DOMAIN @[k] |->
              IF c \in timestamp_columns THEN ToDatetime(@[k][c]) ELSE @[k][c]]]]

\* combined.drop_duplicates(subset=subset, keep="first")
DropDuplicates(frame, subset) ==
    LET Same(i, j) == \A c \in Range(subset) : frame.rows[i][c] = frame.rows[j][c]
        keep == {i \in DOMAIN frame.rows : \A j \in 1..(i - 1) : ~Same(i, j)}
        Pick[k \in 0..Len(frame.rows)] ==
            IF k = 0 THEN <<>>
            ELSE IF k \in keep THEN Append(Pick[k - 1], frame.rows[k])
            ELSE Pick[k - 1]
    IN [frame EXCEPT !.rows = Pick[Len(frame.rows)]]

\* combined.to_csv: the text of a value.
Written(value) ==
    CASE value.type = "int" -> TextOf(value.n)
      [] value.type = "str" -> value.s
      [] value.type = "datetime" ->
           IF "date" \in DOMAIN value THEN value.date ELSE TextOf(value.ns)
      [] OTHER -> <<>>

to_csv(frame) ==
    Csv(frame.columns,
        [k \in DOMAIN frame.rows |->
           [c \in DOMAIN frame.rows[k] |-> Written(frame.rows[k][c])]])

\* The names that end in .csv, and the file names in sorted order.
CsvNames == {"a.csv", "b.csv", "out.csv"}
NameOrder == <<"a.csv", "b.csv", "notes.txt", "out.csv">>

\* find_files_by_pattern(folder, "*.csv"): the files of the folder whose
\* name matches, sorted.
find_files_by_pattern(files, folder, pattern) ==
    LET names == SelectSeq(NameOrder, LAMBDA n :
                     /\ Exists(files, folder \o <<n>>)
                     /\ files[folder \o <<n>>].kind = "file"
                     /\ pattern = "*.csv" => n \in CsvNames)
    IN [k \in DOMAIN names |-> folder \o <<names[k]>>]

\* out_path.parent.mkdir(parents=True, exist_ok=True): the directories
\* that are missing above the output.
Mkdir(files, folder) ==
    [path \in DOMAIN files \cup {SubSeq(folder, 1, k) : k \in 1..Len(folder)} |->
        IF path \in DOMAIN files THEN files[path] ELSE Dir]

\* mkdir raises when a name above the output is a file; to_csv raises when
\* the output is a directory.
WriteRaises(files, out_path) ==
    \/ \E k \in 1..(Len(out_path) - 1) :
           Exists(files, SubSeq(out_path, 1, k)) /\ ~IsDir(files, SubSeq(out_path, 1, k))
    \/ IsDir(files, out_path)

default_output == <<"data", "processed", "MASTER_reddit_crisis_data_ts.csv">>

\* main(): args.files and args.output are paths, <<>> when not given;
\* args.dir and args.pattern are "" when not given, args.limit is 0 then.
CombineMain(files, args) ==
    LET listed == args.files \o
                  (IF args.dir # <<>> /\ args.pattern # ""
                   THEN find_files_by_pattern(files, args.dir, args.pattern)
                   ELSE <<>>)
        found == SelectSeq(listed, LAMBDA f : Exists(files, f))
        idle == [op |-> "combine_csvs", status |-> "ok", args |-> args,
                 files |-> found, exit |-> 0, before |-> 0, after |-> 0,
                 out_path |-> <<>>]
    IN IF found = <<>>
       THEN [files |-> files, proc |-> [idle EXCEPT !.exit = 1]]
       ELSE IF \E k \in DOMAIN found : ReadRaises(files, found[k])
       THEN [files |-> files, proc |-> [idle EXCEPT !.status = "raised", !.exit = 1]]
       ELSE LET frames == [k \in DOMAIN found |-> read_csv_safely(files, found[k])]
                all_rows == ConcatRows(frames)
                limited == IF args.limit # 0 THEN HeadRows(all_rows, args.limit)
                           ELSE all_rows
                combined == normalize_timestamps(limited)
                subset == SelectSeq(args.dedupe, LAMBDA c : c \in Range(combined.columns))
                deduped == IF subset # <<>> THEN DropDuplicates(combined, subset)
                           ELSE combined
                out_path == IF args.output # <<>> THEN args.output ELSE default_output
                done == [idle EXCEPT !.before = Len(combined.rows),
                                     !.after = Len(deduped.rows),
                                     !.out_path = out_path]
            IN IF WriteRaises(files, out_path)
               THEN [files |-> files,
                     proc |-> [done EXCEPT !.status = "raised", !.exit = 1]]
               ELSE [files |-> [path \in DOMAIN Mkdir(files, Parents(out_path, 0))
                                          \cup {out_path} |->
                                  IF path = out_path THEN to_csv(deduped)
                                  ELSE Mkdir(files, Parents(out_path, 0))[path]],
                     proc |-> done]

CombineCsvs(args) ==
    /\ proc.op = "none"
    /\ fs' = CombineMain(fs, args).files
    /\ proc' = CombineMain(fs, args).proc
    /\ UNCHANGED <<dataset, validation, netVars, liwcVars, calls,
                   pipelineVars>>

\* The CSV files the inputs are drawn from.
CsvFiles ==
    [text_ids |->
      Csv(<<"post_id", "title">>,
          <<[post_id |-> <<"a", "b", "c">>, title |-> <<"t", "1">>],
            [post_id |-> <<"d", "e", "f">>, title |-> <<"t", "2">>],
            [post_id |-> <<"a", "b", "c">>, title |-> <<"t", "3">>]>>),
     one_number |->
      Csv(<<"post_id", "title">>,
          <<[post_id |-> <<"1", "2", "3">>, title |-> <<"t", "4">>]>>),
     dated |->
      Csv(<<"post_id", "title", "created_utc">>,
          <<[post_id |-> <<"d", "e", "f">>, title |-> <<"t", "5">>, created_utc |-> <<"2", "0", "2", "5", "-", "0", "1", "-", "0", "1">>],
            [post_id |-> <<"g", "h", "i">>, title |-> <<"t", "6">>, created_utc |-> <<"b", "a", "d">>]>>),
     mixed_ids |->
      Csv(<<"post_id", "title">>,
          <<[post_id |-> <<"1", "2", "3">>, title |-> <<"t", "7">>],
            [post_id |-> <<"a", "b", "c">>, title |-> <<"t", "8">>]>>),
     numbers |->
      Csv(<<"post_id", "content_hash">>,
          <<[post_id |-> <<"7">>, content_hash |-> <<"h", "1">>],
            [post_id |-> <<"7">>, content_hash |-> <<"h", "1">>],
            [post_id |-> <<"1", "2", "3">>, content_hash |-> <<"h", "2">>]>>),
     no_ids |->
      Csv(<<"title">>,
          <<[title |-> <<"t", "9">>]>>),
     no_bytes |-> Csv(<<>>, <<>>)]

Raw == <<"data", "raw">>

\* data/raw holds notes.txt and, each present or not, a.csv and b.csv.
CombineFileSystems ==
    {Tree({<<<<"data">>, Dir>>, <<Raw, Dir>>,
           <<Raw \o <<"notes.txt">>, CsvFiles.no_ids>>}
          \cup {<<Raw \o <<"a.csv">>, CsvFiles[a]>> : a \in first}
          \cup {<<Raw \o <<"b.csv">>, CsvFiles[b]>> : b \in second}) :
       first \in {{}, {"text_ids"}, {"one_number"}, {"no_bytes"}},
       second \in {{}, {"dated"}, {"mixed_ids"}, {"numbers"}, {"no_ids"}}}

CombineArgs ==
    [files : {<<>>, <<Raw \o <<"a.csv">>, Raw \o <<"b.csv">>>>,
              <<Raw \o <<"b.csv">>, Raw \o <<"a.csv">>>>, <<Raw>>},
     dir : {<<>>, Raw},
     pattern : {"", "*.csv", "*"},
     dedupe : {<<>>, <<"post_id">>, <<"post_id", "content_hash">>},
     output : {<<>>, <<"out.csv">>, Raw \o <<"notes.txt", "out.csv">>},
     limit : {0, 1}]

InitCombine ==
    /\ NetworkUnused
    /\ LiwcUnused
    /\ dataset = [columns |-> {}, float_columns |-> {}, rows |-> <<>>]
    /\ validation = [op |-> "none", status |-> "ok"]
    /\ fs \in CombineFileSystems
    /\ proc = [op |-> "none", status |-> "ok"]
    /\ PipelineUnused

NextCombine == \E args \in CombineArgs : CombineCsvs(args)

SpecCombine == InitCombine /\ [][NextCombine]_vars

(***************************************************************************)
(* Part 5.  DataCleaner                                                    *)
(*                                                                         *)
(* A table is [columns, index, rows]: the set of column names, the row     *)
(* labels in row order and the rows, one record per row.  A text cell is   *)
(* Str(chars) or Missing, a score cell an exact fraction or NaN.           *)
(***************************************************************************)
MaxFrameRows == 5
MaxTextLen == 5

NUL == "NUL"                              \* the character '\x00'
Whitespace == {" ", "\t", "\n"}           \* \s, and what str.strip() strips

\* re.sub(r'\s+', ' ', text): every maximal run of whitespace becomes one
\* space.
RECURSIVE CollapseWhitespace(_, _)
CollapseWhitespace(chars, i) ==
    IF i > Len(chars) THEN <<>>
    ELSE IF chars[i] \notin Whitespace
         THEN <<chars[i]>> \o CollapseWhitespace(chars, i + 1)
         ELSE IF i > 1 /\ chars[i - 1] \in Whitespace
              THEN CollapseWhitespace(chars, i + 1)
              ELSE <<" ">> \o CollapseWhitespace(chars, i + 1)

\* text.replace('\x00', '')
RemoveNul(chars) == SelectSeq(chars, LAMBDA c : c # NUL)

\* text.strip()
Strip(chars) ==
    LET solid == {i \in DOMAIN chars : chars[i] \notin Whitespace}
    IN IF solid = {} THEN <<>>
       ELSE LET first == CHOOSE i \in solid : \A j \in solid : i <= j
                last == CHOOSE i \in solid : \A j \in solid : j <= i
            IN SubSeq(chars, first, last)

\* DataCleaner._clean_text of a value: whitespace runs are collapsed, then
\* the NUL characters are removed, then the ends are stripped.
CleanText(text) ==
    IF text.kind # "str" THEN text
    ELSE Str(Strip(RemoveNul(CollapseWhitespace(text.chars, 1))))

config ==
    [remove_duplicates |-> TRUE, remove_deleted |-> TRUE,
     remove_bots |-> TRUE, min_content_length |-> 10,
     max_content_length |-> 50000, clean_text |-> TRUE,
     handle_missing |-> TRUE, remove_outliers |-> TRUE]

\* A step of the pipeline works on a table, the statistics of the cleaner
\* and the exception raised so far, if any.  The table is the caller's own
\* object (shared) or another one; what a step assigns to a column of a
\* shared table shows in the caller's table.
Step(df_in, stats, status, caller, shared) ==
    [df |-> df_in, stats |-> stats, status |-> status, caller |-> caller,
     shared |-> shared]

\* The step returns a new table.
Replaced(s, df_new, stats) == Step(df_new, stats, "ok", s.caller, FALSE)

\* The step assigns to columns of the table it was given.
Assigned(s, df_new, stats) ==
    Step(df_new, stats, "ok", IF s.shared THEN df_new ELSE s.caller, s.shared)

\* The step raises.
Raised(s, status) == [s EXCEPT !.status = status]

\* The numbers of a set in ascending order.
RECURSIVE Ascending(_)
Ascending(S) ==
    IF S = {} THEN <<>>
    ELSE LET least == CHOOSE x \in S : \A y \in S : x <= y
         IN <<least>> \o Ascending(S \ {least})

\* df[mask] for a mask computed from df itself: the rows at the kept
\* positions, under their labels.
Keep(df_in, kept) ==
    LET at == Ascending(kept)
    IN [columns |-> df_in.columns,
        index |-> [k \in DOMAIN at |-> df_in.index[at[k]]],
        rows |-> [k \in DOMAIN at |-> df_in.rows[at[k]]]]

\* DataFrame.drop_duplicates(subset, keep='first'); two missing values count
\* as equal.
DropDuplicatesOn(df_in, subset) ==
    LET key(k) == [c \in subset |-> df_in.rows[k][c]]
    IN Keep(df_in, {k \in DOMAIN df_in.rows :
                       \A j \in 1..(k - 1) : key(j) # key(k)})

\* _remove_duplicates
RemoveDuplicates(s) ==
    IF ~({"title", "content", "author"} \subseteq s.df.columns)
    THEN Raised(s, "KeyError")
    ELSE LET exact == DropDuplicatesOn(s.df, {"title", "content", "author"})
             near == IF "content" \in exact.columns
                     THEN DropDuplicatesOn(exact, {"content"})
                     ELSE exact
             duplicates_removed == Len(s.df.rows) - Len(near.rows)
         IN Replaced(s, near,
                     [s.stats EXCEPT !.duplicates_removed =
                                         @ + duplicates_removed])

\* df[col] = values, for the columns the table has.
Assign(df_in, Value(_, _)) ==
    [df_in EXCEPT !.rows =
        [k \in DOMAIN @ |->
            [c \in DOMAIN @[k] |->
                IF c \in df_in.columns THEN Value(c, @[k][c]) ELSE @[k][c]]]]

\* _clean_text_columns
CleanTextColumns(s) ==
    LET text_columns == {"title", "content"} \cap s.df.columns
        Cleaned(c, v) == IF c \in text_columns THEN CleanText(v) ELSE v
    IN Assigned(s, Assign(s.df, Cleaned),
                [s.stats EXCEPT !.text_cleaned =
                     @ + Cardinality(text_columns) * Len(s.df.rows)])

TextColumns == {"title", "content", "author", "subreddit"}
NumericColumns == {"score", "num_comments", "upvote_ratio"}

IsMissing(c, v) == IF c \in TextColumns THEN v.kind = "nan" ELSE IsNaN(v)

\* _handle_missing_values
HandleMissingValues(s) ==
    LET handled == (TextColumns \cup NumericColumns) \cap s.df.columns
        missing_count ==
            Cardinality({<<k, c>> \in (DOMAIN s.df.rows) \X handled :
                            IsMissing(c, s.df.rows[k][c])})
        Filled(c, v) ==
            IF c \in handled /\ IsMissing(c, v)
            THEN IF c \in TextColumns THEN Str(<<>>) ELSE Frac(0, 1)
            ELSE v
    IN Assigned(s, Assign(s.df, Filled),
                [s.stats EXCEPT !.missing_values_filled = @ + missing_count])

deleted_indicators ==
    { <<"[", "d", "e", "l", "e", "t", "e", "d", "]">>,
      <<"[", "r", "e", "m", "o", "v", "e", "d", "]">>,
      <<"[", "r", "e", "m", "o", "v", "e", "d", " ", "b", "y", " ",
        "m", "o", "d", "e", "r", "a", "t", "o", "r", "]">>,
      <<"[", "d", "e", "l", "e", "t", "e", "d", " ", "b", "y", " ",
        "u", "s", "e", "r", "]">> }

deleted_authors ==
    { <<"[", "d", "e", "l", "e", "t", "e", "d", "]">>,
      <<"[", "r", "e", "m", "o", "v", "e", "d", "]">> }

\* Series.str.lower().isin(values): a missing value is in no list.
LowerIsin(v, values) == v.kind = "str" /\ LowerText(v.chars) \in values

\* _remove_deleted_content
RemoveDeletedContent(s) ==
    LET by_content ==
            IF "content" \in s.df.columns
            THEN Keep(s.df, {k \in DOMAIN s.df.rows :
                     ~LowerIsin(s.df.rows[k]["content"],
                                {LowerText(x) : x \in deleted_indicators})})
            ELSE s.df
        by_author ==
            IF "author" \in by_content.columns
            THEN Keep(by_content, {k \in DOMAIN by_content.rows :
                     ~LowerIsin(by_content.rows[k]["author"],
                                deleted_authors)})
            ELSE by_content
        removed == Len(s.df.rows) - Len(by_author.rows)
    IN IF {"content", "author"} \cap s.df.columns = {} THEN s
       ELSE Replaced(s, by_author,
                     [s.stats EXCEPT !.invalid_rows_removed = @ + removed])

\* re.match of a bot pattern on a lower-cased author: '.*bot$', 'bot.*',
\* 'auto.*' and '.*moderator.*' (no author holds a line break).
bot_patterns ==
    << [where |-> "end", word |-> <<"b", "o", "t">>],
       [where |-> "start", word |-> <<"b", "o", "t">>],
       [where |-> "start", word |-> <<"a", "u", "t", "o">>],
       [where |-> "any",
        word |-> <<"m", "o", "d", "e", "r", "a", "t", "o", "r">>] >>

Match(chars, pattern) ==
    CASE pattern.where = "start" -> StartsAt(chars, 1, pattern.word)
      [] pattern.where = "end" ->
            /\ Len(pattern.word) <= Len(chars)
            /\ StartsAt(chars, Len(chars) - Len(pattern.word) + 1,
                        pattern.word)
      [] OTHER -> \E i \in DOMAIN chars : StartsAt(chars, i, pattern.word)

\* df['author'].str.lower().str.match(pattern, na=False)
StrMatch(v, pattern) == v.kind = "str" /\ Match(LowerText(v.chars), pattern)

\* The mask of _remove_bot_content.  It starts as pd.Series([True] * len(df)),
\* whose labels are 0 .. len(df)-1; "mask &= other" aligns the two series
\* on their labels, counts a label that one of them lacks as False, and keeps
\* the labels of mask.
BotMask(df_in) ==
    [label \in 0..(Len(df_in.rows) - 1) |->
        \E k \in DOMAIN df_in.rows :
            /\ df_in.index[k] = label
            /\ \A p \in DOMAIN bot_patterns :
                   ~StrMatch(df_in.rows[k]["author"], bot_patterns[p])]

\* df[mask] for a boolean series with labels of its own: the mask is
\* reindexed to the labels of df, and IndexingError is raised when the mask
\* lacks one of them.
SelectByMask(df_in, mask) ==
    IF \E k \in DOMAIN df_in.index : df_in.index[k] \notin DOMAIN mask
    THEN [df |-> df_in, status |-> "IndexingError"]
    ELSE [df |-> Keep(df_in, {k \in DOMAIN df_in.rows :
                                 mask[df_in.index[k]]}),
          status |-> "ok"]

\* _remove_bot_content
RemoveBotContentOf(s) ==
    IF "author" \notin s.df.columns THEN s
    ELSE LET selected == SelectByMask(s.df, BotMask(s.df))
             removed == Len(s.df.rows) - Len(selected.df.rows)
         IN IF selected.status # "ok"
            THEN Raised(s, selected.status)
            ELSE Replaced(s, selected.df,
                     [s.stats EXCEPT !.invalid_rows_removed = @ + removed])

\* _validate_content_length
ValidateContentLength(s) ==
    IF "content" \notin s.df.columns THEN s
    ELSE LET measured ==
                 [columns |-> s.df.columns \cup {"content_length"},
                  index |-> s.df.index,
                  rows |-> [k \in DOMAIN s.df.rows |->
                               ("content_length" :>
                                    Len(s.df.rows[k]["content"].chars))
                               @@ s.df.rows[k]]]
             valid ==
                 Keep(measured, {k \in DOMAIN measured.rows :
                     /\ measured.rows[k]["content_length"]
                            >= config.min_content_length
                     /\ measured.rows[k]["content_length"]
                            <= config.max_content_length})
             removed == Len(s.df.rows) - Len(valid.rows)
         IN Replaced(Assigned(s, measured, s.stats), valid,
                     [s.stats EXCEPT !.invalid_rows_removed = @ + removed])

\* Series.quantile(q) with linear interpolation between the two closest
\* ranks; NaN for a column without values.
Quantile(values, q) ==
    LET xs == SortedNumbers(SelectSeq(values, LAMBDA v : ~IsNaN(v)))
        n == Len(xs)
        rank == q[1] * (n - 1)
        below == rank \div q[2]
        part == Frac(rank % q[2], q[2])
    IN IF n = 0 THEN NaN
       ELSE IF rank % q[2] = 0 THEN xs[below + 1]
       ELSE FracNorm(FracAdd(xs[below + 1],
                FracNorm(FracMul(FracSub(xs[below + 2], xs[below + 1]),
                                 part))))

\* The rows inside [Q1 - 3 * IQR, Q3 + 3 * IQR]; a comparison with NaN is
\* false.
WithinBounds(df_in, col) ==
    LET values == [k \in DOMAIN df_in.rows |-> df_in.rows[k][col]]
        Q1 == Quantile(values, Frac(1, 4))
        Q3 == Quantile(values, Frac(3, 4))
        IQR == FracNorm(FracSub(Q3, Q1))
        lower_bound == FracNorm(FracSub(Q1, FracMul(Frac(3, 1), IQR)))
        upper_bound == FracNorm(FracAdd(Q3, FracMul(Frac(3, 1), IQR)))
    IN IF IsNaN(Q1) THEN {}
       ELSE {k \in DOMAIN df_in.rows :
                /\ ~IsNaN(values[k])
                /\ FracLeq(lower_bound, values[k])
                /\ FracLeq(values[k], upper_bound)}

\* _remove_statistical_outliers
RemoveStatisticalOutliers(s) ==
    LET by_score ==
            IF "score" \in s.df.columns
            THEN Keep(s.df, WithinBounds(s.df, "score"))
            ELSE s.df
        by_comments ==
            IF "num_comments" \in by_score.columns
            THEN Keep(by_score, WithinBounds(by_score, "num_comments"))
            ELSE by_score
        removed == Len(s.df.rows) - Len(by_comments.rows)
    IN IF {"score", "num_comments"} \cap s.df.columns = {} THEN s
       ELSE Replaced(s, by_comments,
                     [s.stats EXCEPT !.invalid_rows_removed = @ + removed])

\* _standardize_data_types: the numeric columns lose their missing values,
\* the text columns hold str(value).
StandardizeDataTypes(s) ==
    LET Standard(c, v) ==
            IF c \in NumericColumns /\ IsNaN(v) THEN Frac(0, 1)
            ELSE IF c \in TextColumns /\ v.kind = "nan"
                 THEN Str(<<"n", "a", "n">>)
                 ELSE v
    IN Assigned(s, Assign(s.df, Standard), s.stats)

\* A step of clean_dataset, applied to the outcome of the step before it:
\* nothing runs after an exception.
Then(before, Stage(_), enabled) ==
    {IF s.status = "ok" /\ enabled THEN Stage(s) ELSE s : s \in before}

\* clean_dataset: df_clean = df.copy() is a table of its own, with the cells
\* of the caller's.
CleanDatasetOf(df_in, stats) ==
    LET s0 == {Step(df_in, [stats EXCEPT !.initial_rows = Len(df_in.rows)],
                    "ok", df_in, FALSE)}
        s1 == Then(s0, RemoveDuplicates, config.remove_duplicates)
        s2 == Then(s1, CleanTextColumns, config.clean_text)
        s3 == Then(s2, HandleMissingValues, config.handle_missing)
        s4 == Then(s3, RemoveDeletedContent, config.remove_deleted)
        s5 == Then(s4, RemoveBotContentOf, config.remove_bots)
        s6 == Then(s5, ValidateContentLength, TRUE)
        s7 == Then(s6, RemoveStatisticalOutliers, config.remove_outliers)
        s8 == Then(s7, StandardizeDataTypes, TRUE)
    IN CHOOSE done \in
           {IF s.status = "ok"
            THEN [s EXCEPT !.stats.final_rows = Len(s.df.rows)]
            ELSE s : s \in s8} : TRUE

\* A variant of RetentionRate that reports the share, not the percentage.
RetentionShare(stats) ==
    IF stats.initial_rows > 0
    THEN FracNorm(Frac(stats.final_rows, stats.initial_rows))
    ELSE Frac(0, 1)

\* report['final_rows'] / report['initial_rows'] * 100 if
\* report['initial_rows'] > 0 else 0, as an exact fraction
RetentionRate(stats) ==
    IF stats.initial_rows > 0
    THEN FracNorm(Frac(stats.final_rows * 100, stats.initial_rows))
    ELSE Frac(0, 1)

\* get_cleaning_report
CleaningReport(stats) ==
    [stats |-> stats,
     rows_removed |-> stats.initial_rows - stats.final_rows,
     retention_rate |-> RetentionRate(stats)]

\* No call on the cleaner yet.
NoCleaning == [op |-> "none", status |-> "ok"]

\* cleaner.clean_dataset(input_df); the statistics are those reached when the
\* call returned or raised.
CleanDataset ==
    /\ calls < MaxCalls
    /\ \E r \in {CleanDatasetOf(input_df, cleaner.cleaning_stats)} :
          /\ cleaner' = [cleaner EXCEPT !.cleaning_stats = r.stats]
          /\ cleaned' = [op |-> "clean_dataset", status |-> r.status,
                         given |-> input_df, result |-> r.df]
          /\ input_df' = r.caller
    /\ calls' = calls + 1
    /\ UNCHANGED <<reddit, collection, netVars, liwcVars, toolVars>>

\* cleaner._remove_bot_content(input_df)
RemoveBotContent ==
    /\ calls < MaxCalls
    /\ \E r \in {RemoveBotContentOf(
                       Step(input_df, cleaner.cleaning_stats, "ok",
                            input_df, TRUE))} :
          /\ cleaner' = [cleaner EXCEPT !.cleaning_stats = r.stats]
          /\ cleaned' = [op |-> "_remove_bot_content", status |-> r.status,
                         given |-> input_df, result |-> r.df]
          /\ input_df' = r.caller
    /\ calls' = calls + 1
    /\ UNCHANGED <<reddit, collection, netVars, liwcVars, toolVars>>

\* cleaner.get_cleaning_report(), after the call recorded in cleaned.
GetCleaningReport ==
    /\ calls < MaxCalls
    /\ cleaned.op # "get_cleaning_report"
    /\ cleaned' = [op |-> "get_cleaning_report", status |-> "ok",
                   after |-> cleaned,
                   report |-> CleaningReport(cleaner.cleaning_stats)]
    /\ calls' = calls + 1
    /\ UNCHANGED <<cleaner, input_df, reddit, collection, netVars, liwcVars,
                   toolVars>>

\* cleaner._clean_text(text), for the content of a row of the table.
CleanTextOf(k) ==
    /\ calls < MaxCalls
    /\ cleaned' = [op |-> "_clean_text", status |-> "ok",
                   text |-> input_df.rows[k]["content"],
                   result |-> CleanText(input_df.rows[k]["content"])]
    /\ calls' = calls + 1
    /\ UNCHANGED <<cleaner, input_df, reddit, collection, netVars, liwcVars,
                   toolVars>>

Rep(c, n) == [i \in 1..n |-> c]

Post(title, content, author, score) ==
    [title |-> title, content |-> content, author |-> author,
     score |-> score]

\* The rows the tables of the runs are taken from: posts to keep, a post
\* with padded content and no title or score, a moderator bot, a post without
\* author, a post too short, a high score, a repeated content and a deleted
\* post.
Posted ==
    << Post(Str(<<"t">>), Str(Rep("a", 10)),
            Str(<<"u", "s", "e", "r", "1">>), Frac(1, 1)),
       Post(Missing, Str(<<" ">> \o Rep("b", 10) \o <<" ", "\n">>),
            Str(<<"u", "s", "e", "r", "2">>), NaN),
       Post(Str(<<"t">>), Str(Rep("f", 10)),
            Str(<<"A", "u", "t", "o", "M", "o", "d", "e", "r", "a", "t",
                  "o", "r">>), Frac(1, 1)),
       Post(Str(<<"t">>), Str(Rep("c", 10)), Missing, Frac(1, 1)),
       Post(Str(<<"t">>), Str(Rep("s", 9)),
            Str(<<"u", "s", "e", "r", "1">>), Frac(1, 1)),
       Post(Str(<<"t">>), Str(Rep("d", 10)),
            Str(<<"u", "s", "e", "r", "2">>), Frac(1, 1)),
       Post(Str(<<"t">>), Str(Rep("e", 10)),
            Str(<<"u", "s", "e", "r", "1">>), Frac(100, 1)),
       Post(Str(<<"t">>), Str(Rep("a", 10)),
            Str(<<"u", "s", "e", "r", "2">>), Frac(1, 1)),
       Post(Str(<<"[", "d", "e", "l", "e", "t", "e", "d", "]">>),
            Str(<<"[", "d", "e", "l", "e", "t", "e", "d", "]">>),
            Str(<<"[", "d", "e", "l", "e", "t", "e", "d", "]">>),
            Frac(0, 1)) >>

FrameColumns ==
    { {"title", "content", "author", "score"},
      {"title", "content", "score"},
      {"title", "content", "author"} }

\* The tables of the runs: up to MaxFrameRows of the posts in their order,
\* under fresh labels 0, 1, .. or under the labels they had in the table
\* they were selected from.
Frames ==
    {[columns |-> cols,
      index |-> [k \in DOMAIN at |-> IF fresh THEN k - 1 ELSE at[k] - 1],
      rows |-> [k \in DOMAIN at |-> Posted[at[k]]]] :
        cols \in FrameColumns, fresh \in BOOLEAN,
        at \in {Ascending(S) :
                   S \in {T \in SUBSET DOMAIN Posted :
                             Cardinality(T) <= MaxFrameRows}}}

InitCleaner ==
    /\ NetworkUnused
    /\ LiwcUnused
    /\ dataset = [columns |-> {}, float_columns |-> {}, rows |-> <<>>]
    /\ validation = [op |-> "none", status |-> "ok"]
    /\ fs = [d \in {} |-> {}]
    /\ proc = [op |-> "none", status |-> "ok"]
    /\ cleaner = [cleaning_stats |-> NoStats]
    /\ input_df \in Frames
    /\ cleaned = NoCleaning
    /\ reddit = [r \in {} |-> "ok"]
    /\ collection = [op |-> "none", status |-> "ok"]

NextCleaner ==
    \/ CleanDataset
    \/ RemoveBotContent
    \/ GetCleaningReport

SpecCleaner == InitCleaner /\ [][NextCleaner]_vars

\* The characters of the texts given to _clean_text.
TextCharacters == {"a", " ", "\n", NUL}

RECURSIVE TextsUpTo(_)
TextsUpTo(n) ==
    IF n = 0 THEN {<<>>}
    ELSE LET shorter == TextsUpTo(n - 1)
         IN shorter \cup {Append(t, c) : t \in shorter, c \in TextCharacters}

\* One-row tables, one for every text of up to MaxTextLen characters.
TextFrames ==
    {[columns |-> {"content"}, index |-> <<0>>,
      rows |-> <<[content |-> Str(t)]>>] : t \in TextsUpTo(MaxTextLen)}

InitText ==
    /\ NetworkUnused
    /\ LiwcUnused
    /\ dataset = [columns |-> {}, float_columns |-> {}, rows |-> <<>>]
    /\ validation = [op |-> "none", status |-> "ok"]
    /\ fs = [d \in {} |-> {}]
    /\ proc = [op |-> "none", status |-> "ok"]
    /\ cleaner = [cleaning_stats |-> NoStats]
    /\ input_df \in TextFrames
    /\ cleaned = NoCleaning
    /\ reddit = [r \in {} |-> "ok"]
    /\ collection = [op |-> "none", status |-> "ok"]

NextText == \E k \in DOMAIN input_df.rows : CleanTextOf(k)

SpecText == InitText /\ [][NextText]_vars

(***************************************************************************)
(* Part 6.  The Reddit collectors                                          *)
(*                                                                         *)
(* A request to the Reddit API is <<subreddit, listing, keyword>>.  The    *)
(* variable reddit tells which requests raise an API error and which       *)
(* subreddits hold a post; the post of a subreddit is returned by every    *)
(* listing and every search of it and mentions every keyword.              *)
(***************************************************************************)
MaxErrors == 1

Request(sub, listing, keyword) == <<sub, listing, keyword>>

\* list(subreddit.hot(..)), list(subreddit.new(..)), list(subreddit.search(..))
\* and post.comments.replace_more(..): the API raises or returns posts.
Answer(request) ==
    [failed |-> request \in reddit.errors,
     posts |-> IF request \notin reddit.errors /\ request[1] \in reddit.busy
               THEN <<request[1]>>
               ELSE <<>>]

\* What a collector has done so far: the rows gathered, the requests made,
\* the subreddits requested, whether an exception left the function, and
\* the try block an exception has ended, if any.
Progress(rows, requests, visited, status, skip) ==
    [rows |-> rows, requests |-> requests, visited |-> visited,
     status |-> status, skip |-> skip]

Visited(a, group) ==
    IF a.visited # <<>> /\ a.visited[Len(a.visited)] = group THEN a.visited
    ELSE Append(a.visited, group)

\* WorkingRedditCollector.collect_posts: an error of the listing leaves no
\* posts.
CollectPostsOf(subreddit) ==
    LET request == Request(subreddit, "hot", "")
        posts == IF Answer(request).failed THEN <<>>
                 ELSE Answer(request).posts
    IN Progress([k \in DOMAIN posts |->
                    [post_id |-> posts[k], subreddit |-> posts[k]]],
                <<request>>, <<subreddit>>, "ok", <<>>)

\* One search of the scripted collector: a line of its three loops.
Search(crisis_id, sub_name, keyword, guarded) ==
    [crisis_id |-> crisis_id, sub_name |-> sub_name, keyword |-> keyword,
     guarded |-> guarded]

Searches(crisis_id, subreddits, keywords, guarded) ==
    [n \in 1..(Len(subreddits) * Len(keywords)) |->
        Search(crisis_id, subreddits[((n - 1) \div Len(keywords)) + 1],
               keywords[((n - 1) % Len(keywords)) + 1], guarded)]

\* The searches of collect_reddit_crisis_data in their order: the loop of
\* the first crisis has no try, the loops of the other two have one around
\* each subreddit.
ScriptedSearches ==
    Searches("la_wildfires_2025", <<"LosAngeles", "California">>,
             <<"wildfire", "fire", "evacuation", "palisades">>, FALSE)
    \o Searches("india_pakistan_2025", <<"india", "pakistan", "worldnews">>,
                <<"india pakistan", "kashmir">>, TRUE)
    \o Searches("turkey_syria_earthquake_2023",
                <<"Turkey", "syria", "worldnews">>,
                <<"turkey earthquake", "syria earthquake">>, TRUE)

\* One search of the scripted collector after the progress a.  An error
\* inside a try block skips the rest of the block, i.e. the remaining
\* keywords of the subreddit; an error outside one ends the function.
ScriptedSearch(a, search) ==
    LET group == <<search.crisis_id, search.sub_name>>
        request == Request(search.sub_name, "search", search.keyword)
        posts == Answer(request).posts
    IN IF a.status = "raised" \/ a.skip = group THEN a
       ELSE IF Answer(request).failed
            THEN Progress(a.rows, Append(a.requests, request),
                          Visited(a, group),
                          IF search.guarded THEN "ok" ELSE "raised", group)
            ELSE Progress(a.rows \o
                              [k \in DOMAIN posts |->
                                  [post_id |-> <<"reddit_", posts[k]>>,
                                   subreddit |-> search.sub_name,
                                   crisis_id |-> search.crisis_id,
                                   keyword |-> search.keyword]],
                          Append(a.requests, request), Visited(a, group),
                          "ok", <<>>)

\* The progress after the steps of a plan, from the n-th on.
RECURSIVE Run(_, _, _, _)
Run(before, Visit(_, _), plan, n) ==
    IF n > Len(plan) THEN before
    ELSE Run({Visit(a, plan[n]) : a \in before}, Visit, plan, n + 1)

\* df.drop_duplicates(subset=['post_id'])
DropDuplicatePosts(rows) ==
    LET first == Ascending({k \in DOMAIN rows :
                    \A j \in 1..(k - 1) : rows[j].post_id # rows[k].post_id})
    IN [k \in DOMAIN first |-> rows[first[k]]]

\* collect_reddit_crisis_data: pd.DataFrame(all_posts) of no posts has no
\* column, and drop_duplicates raises KeyError on it.
CollectRedditCrisisDataOf ==
    LET searched ==
            Run({Progress(<<>>, <<>>, <<>>, "ok", <<>>)}, ScriptedSearch,
                ScriptedSearches, 1)
    IN CHOOSE done \in
           {IF a.status = "raised" \/ a.rows = <<>>
            THEN Progress(<<>>, a.requests, a.visited, "raised", <<>>)
            ELSE Progress(DropDuplicatePosts(a.rows), a.requests,
                          a.visited, "ok", <<>>) : a \in searched} : TRUE

\* The configuration of the crisis the sample collector is asked for: its
\* subreddits, its primary and its secondary keywords.
crisis_config ==
    [subreddits |-> <<"LosAngeles", "California">>,
     primary |-> <<"wildfire", "fire">>,
     secondary |-> <<"evacuation">>]

\* The keywords the title and text of a post of the model contain.
Mentioned == {"wildfire", "fire"}

\* _is_crisis_relevant
IsCrisisRelevant(keywords) == \E k \in DOMAIN keywords : keywords[k] \in Mentioned

\* A request of _search_subreddit_for_crisis: the hot posts, the recent
\* posts, then a search for each of the first three keywords.
Listings(sub, keywords) ==
    << [sub |-> sub, listing |-> "hot", keywords |-> keywords],
       [sub |-> sub, listing |-> "new", keywords |-> keywords] >>
    \o [k \in 1..(IF Len(keywords) < 3 THEN Len(keywords) ELSE 3) |->
           [sub |-> sub, listing |-> "search", keywords |-> <<keywords[k]>>]]

RECURSIVE SampleListings(_, _, _)
SampleListings(subreddits, keywords, n) ==
    IF n > Len(subreddits) THEN <<>>
    ELSE Listings(subreddits[n], keywords)
         \o SampleListings(subreddits, keywords, n + 1)

\* The progress of collect_crisis_sample_data holds, besides, the subreddit
\* it is in and the posts found in it so far.
InSubreddit(a, sub, posts) == [sub |-> sub, posts |-> posts] @@ a

\* posts[:max_posts] of the subreddit left, added to collected_posts.
Collected(a, max_posts) ==
    a.rows \o SubSeq(a.posts, 1,
                     IF Len(a.posts) < max_posts THEN Len(a.posts)
                     ELSE max_posts)

\* _process_posts for the posts of one answer: a relevant post becomes a row
\* with its top comments, which are asked for by another request; an error
\* of that request leaves the row without comments.
ProcessPosts(posts, keywords, sub) ==
    IF ~IsCrisisRelevant(keywords) THEN <<>>
    ELSE [k \in DOMAIN posts |->
             [post_id |-> posts[k], subreddit |-> sub,
              comments |->
                  Answer(Request(sub, "comments", posts[k])).posts]]

\* One request of collect_crisis_sample_data after the progress a.  The loop
\* over the subreddits ends when target_posts rows are collected; inside a
\* subreddit an error ends _search_subreddit_for_crisis, which returns the
\* posts it has.
SampleRequest(a, step, target_posts, max_posts) ==
    LET entering == a.sub # step.sub
        rows == IF entering THEN Collected(a, max_posts) ELSE a.rows
        found == IF entering THEN <<>> ELSE a.posts
        skip == IF entering THEN <<>> ELSE a.skip
        request == Request(step.sub, step.listing,
                           IF step.listing = "search" THEN step.keywords[1]
                           ELSE "")
        answer == Answer(request)
        processed == ProcessPosts(answer.posts, step.keywords, step.sub)
        asked == <<request>> \o
                 [k \in DOMAIN processed |->
                     Request(step.sub, "comments", processed[k].post_id)]
    IN IF a.status = "done" \/ (entering /\ Len(rows) >= target_posts)
       THEN InSubreddit(Progress(rows, a.requests, a.visited, "done", <<>>),
                        step.sub, <<>>)
       ELSE IF skip = <<step.sub>>
               \/ (step.listing # "hot" /\ Len(found) >= max_posts)
            THEN InSubreddit(Progress(rows, a.requests, a.visited, "ok",
                                      skip), step.sub, found)
            ELSE IF answer.failed
                 THEN InSubreddit(
                          Progress(rows, Append(a.requests, request),
                                   Visited(a, step.sub), "ok", <<step.sub>>),
                          step.sub, found)
                 ELSE InSubreddit(
                          Progress(rows, a.requests \o asked,
                                   Visited(a, step.sub), "ok", <<>>),
                          step.sub, found \o processed)

\* collect_crisis_sample_data(crisis_id, target_posts,
\* max_posts_per_subreddit)
CollectCrisisSampleDataOf(target_posts, max_posts) ==
    LET all_keywords == crisis_config.primary \o crisis_config.secondary
        Visit(a, step) == SampleRequest(a, step, target_posts, max_posts)
        searched ==
            Run({InSubreddit(Progress(<<>>, <<>>, <<>>, "ok", <<>>), "", <<>>)},
                Visit, SampleListings(crisis_config.subreddits,
                                      all_keywords, 1), 1)
    IN CHOOSE done \in
           {Progress(Collected(a, max_posts), a.requests, a.visited, "ok",
                     <<>>) : a \in searched} : TRUE

\* No run of a collector yet.
NoCollection == [op |-> "none", status |-> "ok"]

\* The outcome of a run, with the subreddits it had to go through.
Outcome(op, planned, a) ==
    [op |-> op, status |-> a.status, rows |-> a.rows,
     requests |-> a.requests, visited |-> a.visited, planned |-> planned]

\* WorkingRedditCollector(...).collect_posts(subreddit)
CollectPosts(subreddit) ==
    /\ calls < MaxCalls
    /\ collection' = Outcome("collect_posts", <<subreddit>>,
                             CollectPostsOf(subreddit))
    /\ calls' = calls + 1
    /\ UNCHANGED <<cleaner, input_df, cleaned, reddit, netVars, liwcVars,
                   toolVars>>

\* RedditCrisisCollector().collect_crisis_sample_data(crisis_id)
CollectCrisisSampleData(target_posts, max_posts_per_subreddit) ==
    /\ calls < MaxCalls
    /\ collection' =
           Outcome("collect_crisis_sample_data", crisis_config.subreddits,
                   CollectCrisisSampleDataOf(target_posts,
                                             max_posts_per_subreddit))
    /\ calls' = calls + 1
    /\ UNCHANGED <<cleaner, input_df, cleaned, reddit, netVars, liwcVars,
                   toolVars>>

\* The subreddit loops of the scripted collector, in their order.
RECURSIVE Groups(_, _)
Groups(searches, n) ==
    IF n > Len(searches) THEN <<>>
    ELSE LET group == <<searches[n].crisis_id, searches[n].sub_name>>
             rest == Groups(searches, n + 1)
         IN IF rest # <<>> /\ rest[1] = group THEN rest
            ELSE <<group>> \o rest

\* collect_reddit_crisis_data()
CollectRedditCrisisData ==
    /\ calls < MaxCalls
    /\ collection' = Outcome("collect_reddit_crisis_data",
                             Groups(ScriptedSearches, 1),
                             CollectRedditCrisisDataOf)
    /\ calls' = calls + 1
    /\ UNCHANGED <<cleaner, input_df, cleaned, reddit, netVars, liwcVars,
                   toolVars>>

SubredditArgs == {"LosAngeles", "india"}

\* Every request a run of the model can make.
AllRequests ==
    {Request(x.sub_name, "search", x.keyword) :
        x \in Range(ScriptedSearches)}
    \cup {Request(x.sub, x.listing,
                  IF x.listing = "search" THEN x.keywords[1] ELSE "") :
             x \in Range(SampleListings(
                             crisis_config.subreddits,
                             crisis_config.primary \o crisis_config.secondary,
                             1))}
    \cup {Request(sub, "comments", sub) :
             sub \in Range(crisis_config.subreddits)}
    \cup {Request(sub, "hot", "") : sub \in SubredditArgs}

RECURSIVE SubsetsUpTo(_, _)
SubsetsUpTo(S, n) ==
    IF n = 0 THEN {{}}
    ELSE LET smaller == SubsetsUpTo(S, n - 1)
         IN smaller \cup {T \cup {x} : T \in smaller, x \in S}

\* The subreddits that hold a post.
Busy ==
    { {}, {"LosAngeles"}, {"worldnews"}, {"California", "india", "syria"},
      {"LosAngeles", "California", "india", "pakistan", "worldnews",
       "Turkey", "syria"} }

InitCollectors ==
    /\ NetworkUnused
    /\ LiwcUnused
    /\ dataset = [columns |-> {}, float_columns |-> {}, rows |-> <<>>]
    /\ validation = [op |-> "none", status |-> "ok"]
    /\ fs = [d \in {} |-> {}]
    /\ proc = [op |-> "none", status |-> "ok"]
    /\ cleaner = [cleaning_stats |-> NoStats]
    /\ input_df = [columns |-> {}, index |-> <<>>, rows |-> <<>>]
    /\ cleaned = NoCleaning
    /\ reddit \in [errors : SubsetsUpTo(AllRequests, MaxErrors), busy : Busy]
    /\ collection = NoCollection

NextCollectors ==
    \/ \E subreddit \in SubredditArgs : CollectPosts(subreddit)
    \/ CollectCrisisSampleData(1000, 200)
    \/ CollectRedditCrisisData

SpecCollectors == InitCollectors /\ [][NextCollectors]_vars

(***************************************************************************)
(* Part 7.  The network page of the dashboard: the network it builds from  *)
(* the loaded table and its export as GraphML.                             *)
(*                                                                         *)
(* The table is what pd.read_csv gives: an author column of strings with   *)
(* np.nan for the empty cells (object), of integers (int64) or of floats   *)
(* with nan for the empty cells (float64).                                 *)
(***************************************************************************)
MaxNetworkRows == 4

FloatValue(n) == [type |-> "float", n |-> n]

\* Series.unique(): the values in the order of their first row; the missing
\* values count as one value.
Unique(values) ==
    LET first == Ascending({k \in DOMAIN values :
                               \A j \in 1..(k - 1) : values[j] # values[k]})
    IN [k \in DOMAIN first |-> values[first[k]]]

\* The object Python gets for an element of the array while iterating.  The
\* missing value of an object column is the one object np.nan; a float64
\* array is unboxed into a new numpy.float64 at every read, and a nan is
\* equal to nothing but the same object, so that every read of a missing
\* value of a float64 column is another dictionary key.
Scalar(dtype, value, read) ==
    IF dtype = "float64" /\ value.type = "nan"
    THEN [type |-> "nan", read |-> read]
    ELSE value

\* The pairs (i, j), i < j, of enumerate(sub_authors) and sub_authors[i+1:],
\* in the order of the two loops.
PairsOf(n) ==
    LET codes == Ascending({p[1] * (n + 1) + p[2] :
                               p \in {q \in (1..n) \X (1..n) : q[1] < q[2]}})
    IN [k \in DOMAIN codes |-> <<codes[k] \div (n + 1), codes[k] % (n + 1)>>]

\* The edges to add for one subreddit.
SubredditPairs(frame, subreddit) ==
    LET sub_authors ==
            Unique(SelectSeq([k \in DOMAIN frame.rows |->
                                 IF frame.rows[k].subreddit = subreddit
                                 THEN frame.rows[k].author
                                 ELSE [type |-> "other"]],
                             LAMBDA v : v.type # "other"))
        pairs == PairsOf(Len(sub_authors))
    IN [k \in DOMAIN pairs |->
           [author1 |-> Scalar(frame.dtype, sub_authors[pairs[k][1]],
                               <<subreddit, pairs[k][1]>>),
            author2 |-> Scalar(frame.dtype, sub_authors[pairs[k][2]],
                               <<subreddit, pairs[k][1], pairs[k][2]>>)]]

RECURSIVE AllPairs(_, _, _)
AllPairs(frame, subreddits, n) ==
    IF n > Len(subreddits) THEN <<>>
    ELSE SubredditPairs(frame, subreddits[n])
         \o AllPairs(frame, subreddits, n + 1)

\* if G.has_edge(author1, author2): weight += 1, else add_edge(.., weight=1)
Connect(G, pair) ==
    IF <<pair.author1, pair.author2>> \in G.adj
    THEN AddEdge(G, pair.author1, pair.author2,
                 G.weight[<<pair.author1, pair.author2>>] + 1)
    ELSE AddEdge(G, pair.author1, pair.author2, 1)

\* The network of the page: a node for every author, an edge between the
\* authors of a subreddit.
DashboardNetwork(frame) ==
    LET authors == Unique([k \in DOMAIN frame.rows |-> frame.rows[k].author])
        nodes == {Scalar(frame.dtype, authors[k], <<"authors", k>>) :
                     k \in DOMAIN authors}
        G == [NewGraph(FALSE) EXCEPT !.nodes = nodes]
        subreddits ==
            Unique([k \in DOMAIN frame.rows |-> frame.rows[k].subreddit])
    IN IF "subreddit" \in frame.columns
       THEN CHOOSE built \in Run({G}, Connect,
                                 AllPairs(frame, subreddits, 1), 1) : TRUE
       ELSE G

\* str(node), the id of a node in the file.
NodeText(node) ==
    CASE node.type = "str" -> node.s
      [] node.type = "int" -> TextOf(node.n)
      [] node.type = "float" -> TextOf(node.n) \o <<".", "0">>
      [] OTHER -> <<"n", "a", "n">>

\* The ends of the edges of an undirected graph.
EdgesOf(G) == {{e[1], e[2]} : e \in G.adj}

\* nx.write_graphml(G, path): a node element for every node, with str(node)
\* as id, and an edge element for every edge, with the ids of its ends and
\* its weight in decimal digits (declared as an integer key).
WriteGraphml(G) ==
    [nodes |-> [n \in G.nodes |-> NodeText(n)],
     edges |-> [e \in EdgesOf(G) |->
                   [ends |-> {NodeText(n) : n \in e},
                    weight |-> TextOf(CHOOSE w \in {G.weight[x] : x \in G.adj} :
                                         \E x \in G.adj :
                                             {x[1], x[2]} = e /\ G.weight[x] = w)]]]

\* nx.read_graphml(path): the node elements with the same id are one node;
\* every edge element is an edge between the nodes of its ids, its weight
\* parsed as an integer.
ReadGraphml(doc) ==
    [nodes |-> {doc.nodes[n] : n \in DOMAIN doc.nodes},
     edges |-> [e \in DOMAIN doc.edges |->
                   [ends |-> doc.edges[e].ends,
                    weight |-> IntegerOf(doc.edges[e].weight)]]]

ProjectRoot == <<"project">>
ExportPath == ProjectRoot \o <<"results", "networks", "network.graphml">>

\* The button "Export Network Data" of the page.
ExportNetwork ==
    /\ calls < MaxCalls
    /\ "author" \in df.columns
    /\ \E G \in {DashboardNetwork(df)} :
          /\ fs' = (ExportPath :> [kind |-> "file", graphml |-> WriteGraphml(G)])
                   @@ Mkdir(fs, SubSeq(ExportPath, 1, Len(ExportPath) - 1))
          /\ proc' = [op |-> "export", status |-> "ok", graph |-> G]
    /\ calls' = calls + 1
    /\ UNCHANGED <<df, sk, networks, metrics, ret, prev, liwcVars, dataset,
                   validation, pipelineVars>>

\* The exported file is loaded again.
ReloadNetwork ==
    /\ calls < MaxCalls
    /\ proc.op = "export"
    /\ Exists(fs, ExportPath)
    /\ proc' = [op |-> "reload", status |-> "ok", graph |-> proc.graph,
                loaded |-> ReadGraphml(fs[ExportPath].graphml)]
    /\ calls' = calls + 1
    /\ UNCHANGED <<fs, df, sk, networks, metrics, ret, prev, liwcVars,
                   dataset, validation, pipelineVars>>

RECURSIVE RowsUpTo(_, _)
RowsUpTo(kinds, n) ==
    IF n = 0 THEN {<<>>}
    ELSE LET shorter == RowsUpTo(kinds, n - 1)
         IN shorter \cup {Append(rows, row) : rows \in shorter, row \in kinds}

AuthorCells ==
    [object |-> {StrValue(<<"a", "l">>), StrValue(<<"b", "o">>), NanValue},
     int64 |-> {IntValue(7), IntValue(10)},
     float64 |-> {FloatValue(7), NanValue}]

LoadedFrames ==
    UNION {{[columns |-> {"author", "subreddit"}, dtype |-> dtype,
             rows |-> rows] :
               rows \in RowsUpTo([author : AuthorCells[dtype],
                                  subreddit : {"s1", "s2"}],
                                 MaxNetworkRows)} :
             dtype \in DOMAIN AuthorCells}

InitExport ==
    /\ df \in LoadedFrames
    /\ sk = NoSklearn
    /\ networks = [n \in {} |-> NewGraph(FALSE)]
    /\ metrics = [n \in {} |-> EmptyMetrics]
    /\ ret = NoCall
    /\ prev = NoCall
    /\ calls = 0
    /\ LiwcUnused
    /\ dataset = [columns |-> {}, float_columns |-> {}, rows |-> <<>>]
    /\ validation = [op |-> "none", status |-> "ok"]
    /\ fs = (ProjectRoot :> Dir)
    /\ proc = [op |-> "none", status |-> "ok"]
    /\ PipelineUnused

NextExport ==
    \/ ExportNetwork
    \/ ReloadNetwork

SpecExport == InitExport /\ [][NextExport]_vars

(***************************************************************************)
(* Properties of the network builders.                                     *)
(***************************************************************************)
AuthorsOf(data) == {data[i].author : i \in DOMAIN data}
SubredditsOf(data) == {data[i].subreddit : i \in DOMAIN data}
PostedIn(data, author, subreddit) ==
    \E i \in DOMAIN data : data[i].author = author /\ data[i].subreddit = subreddit

\* The subreddits in which both authors posted.
SubredditsOfBoth(data, u, v) ==
    {s \in SubredditsOf(data) : PostedIn(data, u, s) /\ PostedIn(data, v, s)}

\* The authors who posted in both subreddits.
AuthorsOfBoth(data, s1, s2) ==
    {a \in AuthorsOf(data) : PostedIn(data, a, s1) /\ PostedIn(data, a, s2)}

CallData == Filtered(ret.args[1])

\* C1: after build_user_interaction_network, two distinct authors other
\* than the deleted-author sentinel are joined by an edge if and only if
\* they posted in a common subreddit, and the weight of the edge is the
\* number of subreddits in which both posted - also when an author name
\* equals a subreddit name of the dataset.
C1_UserEdgeIffCommonSubreddit ==
    ret.op = "build_user_interaction_network" =>
        \A u \in AuthorsOf(CallData) \ {DELETED} :
            \A v \in AuthorsOf(CallData) \ {DELETED} :
                u # v =>
                    /\ <<u, v>> \in ret.graph.adj
                          <=> SubredditsOfBoth(CallData, u, v) # {}
                    /\ <<u, v>> \in ret.graph.adj =>
                          ret.graph.weight[<<u, v>>] =
                              Frac(Cardinality(SubredditsOfBoth(CallData, u, v)), 1)

\* C7: the nodes of the user-interaction network are exactly the distinct
\* authors of the filtered dataset other than the sentinel; an author who
\* shares no subreddit with another author is a node too.
C7_UserNodesAreAllAuthors ==
    ret.op = "build_user_interaction_network" =>
        ret.graph.nodes = AuthorsOf(CallData) \ {DELETED}

\* C8: after build_subreddit_network, two distinct subreddit nodes are
\* joined by an edge if and only if some author posted in both, and the
\* weight of the edge is the number of distinct authors who posted in both.
C8_SubredditEdgeIffSharedAuthor ==
    ret.op = "build_subreddit_network" =>
        \A s1 \in ret.graph.nodes : \A s2 \in ret.graph.nodes :
            s1 # s2 =>
                /\ <<s1, s2>> \in ret.graph.adj
                      <=> AuthorsOfBoth(CallData, s1, s2) # {}
                /\ <<s1, s2>> \in ret.graph.adj =>
                      ret.graph.weight[<<s1, s2>>] =
                          Frac(Cardinality(AuthorsOfBoth(CallData, s1, s2)), 1)

\* A subreddit network with an edge between two subreddits that share two
\* authors.
C8_Witness ==
    /\ ret.op = "build_subreddit_network"
    /\ \E e \in ret.graph.adj :
          /\ ret.graph.weight[e] = Frac(2, 1)
          /\ Cardinality(AuthorsOfBoth(CallData, e[1], e[2])) = 2

\* C9: calculate_basic_metrics on a graph of the registry returns a metrics
\* map and does not raise, whatever the graph (no node, disconnected).
C9_MetricsNeverRaise ==
    (ret.op = "calculate_basic_metrics" /\ ret.name \in DOMAIN networks) =>
        ret.status = "ok" /\ "basic_stats" \in ret.metrics.keys

Related(p, q) == p.author = q.author \/ p.subreddit = q.subreddit

\* C6: for a dataset with unique post identifiers and timestamps, the
\* temporal network is a directed graph over the posts with an edge p -> q
\* exactly when q follows p in timestamp order, q is at most
\* time_window_hours after p, and p and q have the same author or the same
\* subreddit; no edge points to a strictly earlier post.  (Two related posts
\* of equal timestamp are joined in one direction only.)
C6_TemporalEdges ==
    (ret.op = "build_temporal_network" /\ "created_utc" \in df.columns) =>
        LET data == CallData
            w == ret.args[2]
            G == ret.graph
        IN /\ G.directed
           /\ G.nodes = {NodeId(data[i]) : i \in DOMAIN data}
           /\ \A e \in G.adj : e[1] \in G.nodes /\ e[2] \in G.nodes
           /\ \A i \in DOMAIN data : \A j \in DOMAIN data :
                 LET p == data[i]
                     q == data[j]
                     pq == <<NodeId(p), NodeId(q)>>
                     qp == <<NodeId(q), NodeId(p)>>
                 IN /\ i = j => pq \notin G.adj
                    /\ p.created_utc < q.created_utc =>
                          /\ pq \in G.adj <=>
                                (q.created_utc - p.created_utc <= w /\ Related(p, q))
                          /\ qp \notin G.adj
                    /\ (i # j /\ p.created_utc = q.created_utc) =>
                          /\ (pq \in G.adj \/ qp \in G.adj) <=> (Related(p, q) /\ w >= 0)
                          /\ ~(pq \in G.adj /\ qp \in G.adj)

\* A temporal network built from rows that are not in timestamp order, with
\* an edge between posts exactly time_window_hours apart and two related
\* posts further apart than the window.
C6_Witness ==
    /\ ret.op = "build_temporal_network"
    /\ "created_utc" \in df.columns
    /\ \E i \in DOMAIN CallData : \E j \in DOMAIN CallData :
          /\ i < j
          /\ CallData[i].created_utc > CallData[j].created_utc
    /\ \E i \in DOMAIN CallData : \E j \in DOMAIN CallData :
          /\ CallData[j].created_utc - CallData[i].created_utc = ret.args[2]
          /\ <<NodeId(CallData[i]), NodeId(CallData[j])>> \in ret.graph.adj
    /\ \E i \in DOMAIN CallData : \E j \in DOMAIN CallData :
          /\ CallData[j].created_utc - CallData[i].created_utc > ret.args[2]
          /\ Related(CallData[i], CallData[j])

BuilderOps ==
    {"build_user_interaction_network", "build_content_similarity_network",
     "build_temporal_network", "build_subreddit_network"}

\* The last two calls were the same builder with the same arguments.
SameBuilderTwice ==
    ret.op \in BuilderOps /\ prev.op = ret.op /\ prev.args = ret.args

\* The builder left by its failure path: the vectorizer raised, or the
\* dataset has no created_utc column.
FailurePath ==
    \/ ret.op = "build_content_similarity_network" /\ VectorizerFails(CallData)
    \/ ret.op = "build_temporal_network" /\ "created_utc" \notin df.columns

C11_ContentEdgesOrEmpty ==
    [][(ret'.op = "build_content_similarity_network" /\ calls' = calls + 1) =>
         LET data == Filtered(ret'.args[1])
             threshold == ret'.args[2]
             G == ret'.graph
         IN /\ ret'.status = "ok"
            /\ IF VectorizerFails(data)
               THEN G = NewGraph(FALSE) /\ networks' = networks
               ELSE /\ ~G.directed
                    /\ G.nodes = {PostIdAt(data, i) : i \in DOMAIN data}
                    /\ \A e \in G.adj : e[1] \in G.nodes /\ e[2] \in G.nodes
                    /\ \A i \in DOMAIN data : \A j \in DOMAIN data :
                          LET e == <<PostIdAt(data, i), PostIdAt(data, j)>>
                          IN /\ i = j => e \notin G.adj
                             /\ i # j =>
                                   /\ e \in G.adj <=>
                                         Similarity(data, i, j) > threshold
                                   /\ e \in G.adj =>
                                         FracEq(G.weight[e],
                                                Frac(Similarity(data, i, j), 1000))
       ]_vars

\* A content network built with success in which two posts are as similar
\* as the threshold and not joined, and two posts are more similar and
\* joined.
C11_Witness ==
    /\ ret.op = "build_content_similarity_network"
    /\ ~VectorizerFails(CallData)
    /\ networks[ret.name] = ret.graph
    /\ \E i \in DOMAIN CallData : \E j \in DOMAIN CallData :
          /\ i # j
          /\ Similarity(CallData, i, j) = ret.args[2]
          /\ <<PostIdAt(CallData, i), PostIdAt(CallData, j)>> \notin ret.graph.adj
    /\ \E i \in DOMAIN CallData : \E j \in DOMAIN CallData :
          /\ i # j
          /\ Similarity(CallData, i, j) > ret.args[2]
          /\ <<PostIdAt(CallData, i), PostIdAt(CallData, j)>> \in ret.graph.adj

(***************************************************************************)
(* Properties of the LIWC analyzer.                                        *)
(***************************************************************************)
\* The tokens of a text, stated by position: the pairs <<i, j>> such that
\* the characters i .. j are word characters and the run cannot be extended.
TokenRuns(chars) ==
    LET starts == {i \in DOMAIN chars :
                     IsWordChar(chars[i]) /\ (i = 1 \/ ~IsWordChar(chars[i - 1]))}
        ends == {j \in DOMAIN chars :
                   IsWordChar(chars[j])
                   /\ (j = Len(chars) \/ ~IsWordChar(chars[j + 1]))}
    IN {r \in starts \X ends :
          r[1] <= r[2] /\ \A k \in r[1]..r[2] : IsWordChar(chars[k])}

RECURSIVE Spelled(_, _, _)
Spelled(chars, i, j) ==
    IF i > j THEN "" ELSE chars[i] \o Spelled(chars, i + 1, j)

\* The tokens of the lower-cased text that are members of the word list.
MembersOf(chars, category) ==
    LET lowered == LowerText(chars)
    IN {r \in TokenRuns(chars) :
          Spelled(lowered, r[1], r[2]) \in WordList(category)}

\* C2: analyze_dataset_liwc returns a table with as many rows as the input
\* table and as many more columns as the lexicon has categories, whatever
\* the row labels of the input.
C2_EnricherKeepsRows ==
    out.op = "analyze_dataset_liwc" =>
        /\ out.status = "ok"
        /\ Len(out.table.index) = Len(table.index)
        /\ Len(out.table.columns) = Len(table.columns) + Len(liwc_categories)

\* C3: calculate_liwc_scores does not raise; for a text with at least one
\* token every category score is in [0, 100]; for a text without tokens, a
\* missing value or a value that is not a string every score is 0.
C3_ScoresInRange ==
    out.op = "calculate_liwc_scores" =>
        /\ out.status = "ok"
        /\ \A category \in Categories :
             IF out.text.kind = "str" /\ TokenRuns(out.text.chars) # {}
             THEN /\ FracLeq(Frac(0, 1), out.scores[category])
                  /\ FracLeq(out.scores[category], Frac(100, 1))
             ELSE out.scores[category] = Frac(0, 1)

\* C4: for a text with tokens, the score of every category is the number
\* of tokens of the lower-cased text (each occurrence counted) that are
\* members of the category's word list, divided by the number of tokens,
\* times 100; 2 risk words among 20 tokens score risk = 10.
C4_ScoreIsShare ==
    (/\ out.op = "calculate_liwc_scores"
     /\ out.text.kind = "str"
     /\ TokenRuns(out.text.chars) # {}) =>
        LET chars == out.text.chars
            total == Cardinality(TokenRuns(chars))
        IN /\ out.status = "ok"
           /\ \A category \in Categories :
                FracEq(out.scores[category],
                       Frac(Cardinality(MembersOf(chars, category)) * 100, total))
           /\ (total = 20 /\ Cardinality(MembersOf(chars, "risk")) = 2) =>
                out.scores["risk"] = Frac(10, 1)

\* A scored text of 20 tokens in which the same risk word, written with a
\* capital, occurs twice.
C4_Witness ==
    /\ out.op = "calculate_liwc_scores"
    /\ out.text.kind = "str"
    /\ Cardinality(TokenRuns(out.text.chars)) = 20
    /\ Cardinality(MembersOf(out.text.chars, "risk")) = 2
    /\ \A r \in MembersOf(out.text.chars, "risk") :
          Spelled(out.text.chars, r[1], r[2]) = "Risk"
    /\ out.scores["risk"] = Frac(10, 1)

\* C5: after calculate_normalized_liwc_scores, in every category column the
\* derived <category>_nls value of a row is 0 when the raw score of the row
\* equals the base rate, and 0 in every row when the base rate is 0.
C5_NormalizedZero ==
    out.op = "calculate_normalized_liwc_scores" =>
        \A category \in Categories \cap Range(out.table.columns) :
            LET base_rate == BaseRate(out.table, category)
            IN \A k \in DOMAIN out.table.cells :
                 LET raw == out.table.cells[k][category]
                     nls == out.table.cells[k][NlsName(category)]
                 IN /\ NlsName(category) \in Range(out.table.columns)
                    /\ (~IsNaN(raw) /\ ~IsNaN(base_rate) /\ FracEq(raw, base_rate))
                          => nls = Frac(0, 1)
                    /\ (~IsNaN(base_rate) /\ base_rate[1] = 0) => nls = Frac(0, 1)

\* A normalised table with a category of positive base rate in which a row
\* scores exactly the base rate and another row does not, and a category
\* of base rate 0.
C5_Witness ==
    /\ out.op = "calculate_normalized_liwc_scores"
    /\ \E k \in DOMAIN out.table.cells :
          /\ liwc.base_rates["risk"][1] > 0
          /\ FracEq(out.table.cells[k]["risk"], liwc.base_rates["risk"])
          /\ out.table.cells[k]["risk_nls"] = Frac(0, 1)
    /\ \E k \in DOMAIN out.table.cells :
          /\ liwc.base_rates["see"][1] = 0
          /\ out.table.cells[k]["see_nls"] = Frac(0, 1)

(***************************************************************************)
(* Properties of the quality validator.                                    *)
(***************************************************************************)
Scored == validation.op # "none" /\ validation.status = "ok"

Validated == validation.op = "validate_dataset" /\ validation.status = "ok"

OverallOf ==
    IF validation.op = "validate_dataset"
    THEN validation.results.overall_score
    ELSE validation.overall_score

HasFiveScores(results) ==
    {"completeness", "consistency", "temporal_coverage", "content_quality",
     "data_distribution"} \subseteq DOMAIN results

\* (a * completeness + b * consistency + c * temporal coverage
\*  + e * content quality + f * distribution balance) / 100
Weighted(results, a, b, c, e, f) ==
    LET Term(w, score) == FracNorm(FracMul(Frac(w, 100), score))
        Plus(p, q) == FracNorm(FracAdd(p, q))
    IN Plus(Term(a, results.completeness.score),
         Plus(Term(b, results.consistency.score),
           Plus(Term(c, results.temporal_coverage.coverage_score),
             Plus(Term(e, results.content_quality.quality_score),
                  Term(f, results.data_distribution.balance_score)))))

\* C12 as stated: the overall score of five sub-scores is 30% completeness
\* + 25% consistency + 25% temporal coverage + 10% content quality + 10%
\* distribution balance.
C12_Original ==
    (Scored /\ HasFiveScores(validation.results)) =>
        FracEq(OverallOf, Weighted(validation.results, 30, 25, 25, 10, 10))

\* C12, amended: the overall score of five sub-scores is 30% completeness
\* + 25% consistency + 10% temporal coverage + 25% content quality + 10%
\* distribution balance.
C12_OverallScoreWeights ==
    (Scored /\ HasFiveScores(validation.results)) =>
        FracEq(OverallOf, Weighted(validation.results, 30, 25, 10, 25, 10))

\* The sub-scores of the test (90, 85, 80, 75, 70) give 82.75, where
\* the weights in the listed order would give 82.
C12_Witness ==
    /\ validation.op = "_calculate_overall_score"
    /\ HasFiveScores(validation.results)
    /\ validation.results.temporal_coverage.coverage_score = Frac(75, 1)
    /\ validation.results.content_quality.quality_score = Frac(80, 1)
    /\ FracEq(validation.overall_score, Frac(331, 4))

InRange(x) == x[2] > 0 /\ FracLeq(Frac(0, 1), x) /\ FracLeq(x, Frac(100, 1))

IssueCount(c) ==
    c.timestamp_issues + c.negative_scores + c.invalid_ratios + c.empty_content

\* C13: when validate_dataset returns for a dataset with at least one row,
\* the overall score and the completeness, consistency and content-quality
\* sub-scores lie in [0, 100], whatever the number of issues counted.
C13_ScoresInRange ==
    (Validated /\ dataset.rows # <<>>) =>
        /\ InRange(validation.results.overall_score)
        /\ InRange(validation.results.completeness.score)
        /\ InRange(validation.results.consistency.score)
        /\ InRange(validation.results.content_quality.quality_score)

\* More consistency issues than rows, and more content issues than rows.
C13_Witness ==
    /\ Validated
    /\ dataset.rows # <<>>
    /\ IssueCount(validation.results.consistency) > Len(dataset.rows)
    /\ validation.results.content_quality.spam_indicators > Len(dataset.rows)
    /\ validation.results.consistency.score = Frac(0, 1)
    /\ validation.results.content_quality.quality_score = Frac(0, 1)

\* C14: validate_dataset on a dataset without rows, of columns title,
\* content and author, returns a map that holds 'overall_score'.
C14_EmptyDatasetValidates ==
    (/\ validation.op = "validate_dataset"
     /\ dataset.rows = <<>>
     /\ dataset.columns = {"title", "content", "author"}) =>
        /\ validation.status = "ok"
        /\ "overall_score" \in DOMAIN validation.results

Complete ==
    \A col \in {"title", "content", "author", "created_utc", "score"} :
        /\ col \in dataset.columns
        /\ \A i \in DOMAIN dataset.rows : ~dataset.rows[i][col].na

\* No value the consistency check counts: a present value that is a
\* timestamp after the call, a score below 0, a ratio outside [0, 1], a
\* content that is empty once stripped.
Consistent ==
    \A i \in DOMAIN dataset.rows :
        LET row == dataset.rows[i]
            Has(col) == col \in dataset.columns /\ ~row[col].na
        IN /\ Has("created_utc") => row.created_utc.v <= validation.now
           /\ Has("score") => row.score.v >= 0
           /\ Has("upvote_ratio") =>
                /\ FracLeq(Frac(0, 1), row.upvote_ratio.v)
                /\ FracLeq(row.upvote_ratio.v, Frac(1, 1))
           /\ Has("content") => row.content.v.stripped > 0

\* C15: for a dataset with at least one row, the completeness score is 100
\* exactly when the five required columns are present without a missing
\* value, and it is below 100 otherwise; the consistency score is 100 when
\* the dataset has no future timestamp, no negative score, no ratio outside
\* [0, 1] and no empty content.
C15_CompleteAndConsistent ==
    (Validated /\ dataset.rows # <<>>) =>
        /\ Complete <=> FracEq(validation.results.completeness.score, Frac(100, 1))
        /\ ~Complete => FracLess(validation.results.completeness.score, Frac(100, 1))
        /\ Consistent => FracEq(validation.results.consistency.score, Frac(100, 1))

\* Two sound records under all columns: both scores are 100.
C15_Witness ==
    /\ Validated
    /\ Len(dataset.rows) >= 2
    /\ {"title", "content", "author", "created_utc", "score", "upvote_ratio"}
         \subseteq dataset.columns
    /\ Complete
    /\ Consistent
    /\ validation.results.completeness.score = Frac(100, 1)
    /\ validation.results.consistency.score = Frac(100, 1)

(***************************************************************************)
(* Properties of the Resonance+ scores.                                    *)
(***************************************************************************)
EngagementColumns(frame) ==
    Range(frame.columns) \cap {"score", "num_comments", "upvotes", "comments", "shares"}

\* C16: on an enriched dataset whose engagement columns are score and
\* num_comments, the persistence score of every post is log1p of the sum
\* of its score and its number of comments (not log1p of the length of its
\* content).
C16_PersistenceFromEngagement ==
    (/\ out.op = "calculate_resonance_plus"
     /\ out.status = "ok"
     /\ Categories \subseteq Range(out.table.columns)
     /\ EngagementColumns(out.table) = {"score", "num_comments"}) =>
        \A k \in DOMAIN out.table.cells :
            LET row == out.table.cells[k]
            IN row["persistence_score"] =
                 [fn |-> "log1p", of |-> FracNorm(FracAdd(row["score"], row["num_comments"]))]

(***************************************************************************)
(* Properties of the cleanup script.                                       *)
(***************************************************************************)
CleanRun == proc.op = "none" /\ proc'.op = "clean_workspace"

\* C17: a run of clean_workspace.py changes the file system only if --yes
\* is given, --dry-run is not given and the marker check has passed (the
\* markers exist under the root the script resolved and the exit code is
\* not 2).
C17_DeletesOnlyOnYes ==
    [][(CleanRun /\ fs' # fs) =>
          /\ proc'.args.yes
          /\ ~proc'.args.dry_run
          /\ proc'.exit # 2
          /\ \A m \in {"README.md", "src", "dashboard", "config"} :
                 proc'.repo_root \o <<m>> \in DOMAIN fs]_vars

\* A run with --yes and without --dry-run has deleted something.
C17_Witness ==
    /\ proc.op = "clean_workspace"
    /\ proc.args.yes
    /\ ~proc.args.dry_run
    /\ proc.exit = 0
    /\ proc.deleted # {}
    /\ \A path \in proc.deleted : path \notin DOMAIN fs

AllowedFolders ==
    {Project \o <<"data", "raw">>, Project \o <<"data", "processed">>,
     Project \o <<"data", "networks">>, Project \o <<"results">>,
     Project \o <<"logs">>}

\* C18: run from <root>/scripts/clean_workspace.py in a root that holds
\* the four markers, the script does not exit with code 2, and every path
\* it deletes or names for deletion lies under one of <root>/data/raw,
\* <root>/data/processed, <root>/data/networks, <root>/results, <root>/logs.
C18_RootRecognized ==
    (/\ proc.op = "clean_workspace"
     /\ proc.script = Project \o <<"scripts", "clean_workspace.py">>
     /\ \A m \in {"README.md", "src", "dashboard", "config"} :
            Project \o <<m>> \in DOMAIN fs) =>
        /\ proc.exit # 2
        /\ \A path \in proc.deleted \cup proc.would_delete :
               \E folder \in AllowedFolders :
                   Len(path) > Len(folder) /\ SubSeq(path, 1, Len(folder)) = folder

CombineRun == proc.op = "none" /\ proc'.op = "combine_csvs"

\* The post_id and the file of every input line, in input-file order.
RECURSIVE InputLines(_, _)
InputLines(files, paths) ==
    IF paths = <<>> THEN <<>>
    ELSE LET lines == files[Head(paths)].lines
         IN [k \in DOMAIN lines |-> <<lines[k]["post_id"], Head(paths)>>]
            \o InputLines(files, Tail(paths))

FirstOccurrences(lines) ==
    LET first == {i \in DOMAIN lines : \A j \in 1..(i - 1) : lines[j][1] # lines[i][1]}
        Pick[k \in 0..Len(lines)] ==
            IF k = 0 THEN <<>>
            ELSE IF k \in first THEN Append(Pick[k - 1], lines[k])
            ELSE Pick[k - 1]
    IN Pick[Len(lines)]

CarryPostId(files, paths) ==
    \A k \in DOMAIN paths :
        /\ files[paths[k]].kind = "file"
        /\ "post_id" \in Range(files[paths[k]].header)

\* C20: a run with --dedupe post_id and no --limit exits with 1 and writes
\* nothing when no input file exists; when the input files all carry a
\* post_id column and the output can be written, it exits with 0 and writes
\* one row per distinct post_id of the inputs, the first in input-file
\* order.
C20_DedupeByPostId ==
    [][(/\ CombineRun
        /\ proc'.args.dedupe = <<"post_id">>
        /\ proc'.args.limit = 0) =>
          /\ proc'.files = <<>> => (proc'.exit = 1 /\ fs' = fs)
          /\ (/\ proc'.files # <<>>
              /\ CarryPostId(fs, proc'.files)
              /\ proc'.status = "ok") =>
                /\ proc'.exit = 0
                /\ proc'.out_path \in DOMAIN fs'
                /\ LET written == fs'[proc'.out_path].lines
                   IN [k \in DOMAIN written |->
                         <<written[k]["post_id"], written[k]["__source_file"]>>]
                      = FirstOccurrences(InputLines(fs, proc'.files))]_vars


(***************************************************************************)
(* Properties of the data cleaner.                                         *)
(***************************************************************************)
\* The rows of a table whose author is no bot: a missing author is none.
AuthorIsBot(row) ==
    \E p \in DOMAIN bot_patterns : StrMatch(row["author"], bot_patterns[p])

NonBotRows(df_in) ==
    Keep(df_in, {k \in DOMAIN df_in.rows : ~AuthorIsBot(df_in.rows[k])})

\* C21: _remove_bot_content raises nothing and returns exactly the rows of
\* its input whose lower-cased author matches none of the bot patterns,
\* under their labels, also when the labels of the input are not 0, 1, ..
\* because rows were dropped from it before.
C21_BotRemovalExact ==
    cleaned.op = "_remove_bot_content" =>
        /\ cleaned.status = "ok"
        /\ cleaned.result =
               IF "author" \in cleaned.given.columns
               THEN NonBotRows(cleaned.given)
               ELSE cleaned.given

\* C22: the text _clean_text returns holds no NUL character, no two
\* consecutive spaces and no whitespace at either end, and cleaning it again
\* changes nothing.
C22_CleanTextNormalForm ==
    cleaned.op = "_clean_text" =>
        LET r == cleaned.result.chars
        IN /\ \A i \in DOMAIN r : r[i] # NUL
           /\ \A i \in 1..(Len(r) - 1) : ~(r[i] = " " /\ r[i + 1] = " ")
           /\ r # <<>> => r[1] \notin Whitespace /\ r[Len(r)] \notin Whitespace
           /\ CleanText(cleaned.result) = cleaned.result

\* A report asked for right after a clean_dataset call that returned.
ReportAfterCleaning ==
    /\ cleaned.op = "get_cleaning_report"
    /\ cleaned.after.op = "clean_dataset"
    /\ cleaned.after.status = "ok"

C28_RemovedRowsAccounted ==
    (cleaned.op = "clean_dataset" /\ cleaned.status = "ok") =>
        LET stats == cleaner.cleaning_stats
        IN stats.initial_rows - stats.final_rows =
               stats.duplicates_removed + stats.invalid_rows_removed


(***************************************************************************)
(* Properties of the collectors.                                           *)
(***************************************************************************)
\* C24: a run of a collector entry point returns a table whatever request
\* the API fails, and goes through every subreddit of the run in order: an
\* error in one subreddit does not keep the later ones from being asked.
C24_ErrorsIsolated ==
    collection.op # "none" =>
        /\ collection.status = "ok"
        /\ collection.visited = collection.planned


(***************************************************************************)
(* Properties of the export of the dashboard.                              *)
(***************************************************************************)
\* The weight of the edge between two nodes of the exported graph.
WeightBetween(G, ends) ==
    G.weight[CHOOSE x \in G.adj : {x[1], x[2]} = ends]

\* C25: the graph read back from the exported GraphML file has as many
\* nodes and as many edges as the graph that was exported, and every edge
\* comes back between the same two nodes with exactly its weight.
C25_GraphmlRoundTrip ==
    proc.op = "reload" =>
        /\ Cardinality(proc.loaded.nodes) = Cardinality(proc.graph.nodes)
        /\ Cardinality(DOMAIN proc.loaded.edges) = NumberOfEdges(proc.graph)
        /\ \A ends \in EdgesOf(proc.graph) :
               \E e \in DOMAIN proc.loaded.edges :
                   /\ proc.loaded.edges[e].ends = {NodeText(n) : n \in ends}
                   /\ proc.loaded.edges[e].weight =
                          WeightBetween(proc.graph, ends)


(***************************************************************************)
(* Properties of the forward scan of the temporal network.                 *)
(***************************************************************************)
\* Every later post of the sorted list is tested against the window: the
\* edges of a scan that never stops early.
ScanEveryLaterPost(posts, time_window_hours) ==
    {<<NodeId(posts[p[1]]), NodeId(posts[p[2]])>> :
        p \in {q \in (DOMAIN posts) \X (DOMAIN posts) :
                  /\ q[1] < q[2]
                  /\ posts[q[2]].created_utc - posts[q[1]].created_utc
                        <= time_window_hours
                  /\ Related(posts[q[1]], posts[q[2]])}}

\* C26: the forward scan of build_temporal_network, which stops for a source
\* post at the first candidate further away than the window, produces
\* exactly the edges of a scan that tests every later post of the sorted
\* list against the window, posts of equal timestamp included.
C26_EarlyBreakIsSafe ==
    (ret.op = "build_temporal_network" /\ "created_utc" \in df.columns) =>
        ret.graph.adj = ScanEveryLaterPost(SortValues(CallData), ret.args[2])

\* A scan that stopped at a candidate outside the window with a later post
\* still unread, over posts of which two related ones have the same
\* timestamp and are joined.
C26_Witness ==
    /\ ret.op = "build_temporal_network"
    /\ "created_utc" \in df.columns
    /\ LET posts == SortValues(CallData)
       IN \E i, j, k \in DOMAIN posts :
             /\ i < j /\ j < k
             /\ posts[j].created_utc - posts[i].created_utc > ret.args[2]
             /\ posts[j].created_utc = posts[k].created_utc
             /\ <<NodeId(posts[j]), NodeId(posts[k])>> \in ret.graph.adj


(***************************************************************************)
(* Properties of analyze_all_networks.                                     *)
(***************************************************************************)
\* C27: the 'metrics' and 'hubs' maps returned by analyze_all_networks hold
\* entries only for the networks built by this call; the networks left in
\* the registry by earlier calls never appear; and every network built by
\* this call whose metrics can be computed is reported, whatever happened
\* to the other builders and networks.
C27_OnlyThisCallsNetworks ==
    ret.op = "analyze_all_networks" =>
        /\ DOMAIN ret.all_metrics \subseteq ret.built
        /\ DOMAIN ret.all_hubs \subseteq ret.built
        /\ \A n \in ret.built :
              ~MetricsRaises(networks[n]) =>
                  n \in DOMAIN ret.all_metrics /\ n \in DOMAIN ret.all_hubs


SharedKnownAuthors(data, sub1, sub2) ==
    (AuthorsIn(data, sub1) \cap AuthorsIn(data, sub2)) \ {DELETED}

\* C30: in the subreddit network the posts of the deleted-author sentinel
\* create no edge and add to no weight: two subreddits are joined only if
\* an author other than the sentinel posted in both, and the weight of the
\* edge is the number of such authors.
C30_DeletedAuthorNeverLinks ==
    ret.op = "build_subreddit_network" =>
        \A e \in ret.graph.adj :
            /\ SharedKnownAuthors(CallData, e[1], e[2]) # {}
            /\ ret.graph.weight[e] =
                   Frac(Cardinality(SharedKnownAuthors(CallData, e[1], e[2])), 1)

====
